---- MODULE Spec2Model ----
(***************************************************************************)
(* terraform-py: the process runner of terraformpy_nerdtronik/utils        *)
(* (run_command, clean_command, CommandResult) together with the operating *)
(* system objects it drives: the child processes of a pipeline and the     *)
(* bounded pipes that connect them to each other and to the runner; and    *)
(* the Logger of both packages (the two-thread logger of                   *)
(* terraformpy_nerdtronik and the single-consumer logger of                *)
(* terraform-py_nerdtronik) with the threads that call it and the threads  *)
(* it runs.  Spec is run_command, SpecLogger a freshly constructed logger, *)
(* SpecStarted a logger with one task started.                             *)
(*                                                                         *)
(* Python values that share a slot with values of another type are tagged  *)
(* tuples (PyNone, PyStr, PyBytes, PyTuple, PyList).  Raw pipe data is a   *)
(* sequence of byte values; decoded text is a TLA+ string.                 *)
(***************************************************************************)
EXTENDS Integers, Sequences, FiniteSets, TLC

\* ------------------------------------------------------------------ bounds
\* Number of write calls in the program run by the first stage.
MaxScript == 2
\* Number of lines an operating system pipe holds before a write blocks.
PipeCap == 1
\* Number of stages of a pipeline.
MaxStages == 2
\* Total number of argv elements of a cmd whose filtering is explored.
MaxArgs == 3
\* Number of calls the caller threads make on the logger in one run.
MaxCalls == 2
\* Number of RUNNING records a run puts on the queue.
MaxFrames == 1
MaxHours == 1       \* the hours of an elapsed time

\* ----------------------------------------------------------- Python values
PyNone == <<"None">>
PyStr(s) == <<"str", s>>
PyBytes(b) == <<"bytes", b>>
PyTuple(t) == <<"tuple", t>>
PyList(t) == <<"list", t>>

\* isinstance(v, list)
IsList(v) == v[1] = "list"

\* The elements a caller may put in an argv.
ArgValues == {PyNone, PyStr(""), PyStr("cmd"), PyStr("--flag")}

\* The files that exist and are executable; any other argv[0] fails to launch.
Executables == {"cmd"}

\* The byte value of an ASCII character.
Ord(c) == CASE c = "a" -> 97 [] c = "b" -> 98 [] c = "c" -> 99 [] c = "\n" -> 10

\* One character of text for one ASCII byte.
Chr(b) == CASE b = 97 -> "a" [] b = 98 -> "b" [] b = 99 -> "c" [] b = 10 -> "\n"

\* The lines a child may write, as the bytes that travel through the pipe:
\* "a\n", "b\n" and the empty line "\n".
Lines == {<<Ord("a"), Ord("\n")>>, <<Ord("b"), Ord("\n")>>, <<Ord("\n")>>}

\* bytes.decode("utf-8") on ASCII data.
RECURSIVE decode(_)
decode(b) == IF b = <<>> THEN "" ELSE Chr(Head(b)) \o decode(Tail(b))

\* str.replace(old, new) for a one-character old.
RECURSIVE replace(_, _, _)
replace(s, old, new) ==
    IF s = "" THEN ""
    ELSE (IF SubSeq(s, 1, 1) = old THEN new ELSE SubSeq(s, 1, 1))
         \o replace(SubSeq(s, 2, Len(s)), old, new)

\* ------------------------------------------------------------ clean_command
clean_command_keep_empty(c) == SelectSeq(c, LAMBDA x : x # PyNone)

\* list(filter(lambda x: x is not None and len(x) > 0, cmd))
clean_command(c) == SelectSeq(c, LAMBDA x : x # PyNone /\ Len(x[2]) > 0)

\* ------------------------------------------------------------ CommandResult
\* CommandResult.__init__: the trailing comma of line 45 stores a 1-tuple.
CommandResult(success, code, out, err, callback_output, line_callback_output) ==
    [success |-> success, code |-> code, stdout |-> out, stderr |-> err,
     callback_output |-> PyTuple(<<callback_output>>),
     line_callback_output |-> line_callback_output]

\* ------------------------------------------------------------------- state
VARIABLES
    args,       \* the arguments run_command was called with (never changed)
    cmd,        \* the caller's cmd list object, which run_command writes to
    program,    \* what the first stage's executable does: its writes and exit code
    procs,      \* the processes spawned so far, in spawn order, with their pipes
    pc,         \* where run_command is
    line,       \* local `line` between the two readline calls
    stdout,     \* local `stdout`
    stderr,     \* local `stderr`
    line_callback_result,   \* local `line_callback_result`
    res_callback,           \* local `res_callback`
    result,     \* the CommandResult returned, PyNone before the return
    raised,     \* the exception that left run_command, "" when none
    log_queue,  \* Logger._log_queue: the records put by Logger.log
    calls,      \* history: the arguments of each callback invocation
    variant,    \* which logger module is loaded: "two_thread" or "single"
    tasks,      \* Logger._tasks
    end_tasks,  \* Logger._end_tasks
    stop_event,     \* Logger._stop_event is set
    task_finished,  \* Logger._task_finished is set (two-thread logger)
    log_thread,     \* Logger._log_thread and the locals of _process_log_queue
    task_thread,    \* Logger._task_thread: an index in task_threads, 0 for None
    task_threads,   \* the threads that run _process_task_queue, in creation order
    console,    \* what has been written to standard output, in order
    errors,     \* what has been written to standard error, in order
    callers,    \* the threads that call the logger: where each one is
    enqueued,   \* history: every record ever put on the queue, in order
    started_tasks,  \* history: every task ever started, in order
    clock,      \* the last reading of time()
    ncalls,     \* history: the number of calls made on the logger
    console_handler,  \* Logger.console_handler: its level and its formatter's flags
    flags,      \* Logger.flags
    input,      \* the call of a pure function that is about to be made
    history     \* history: the calls that configure, format or log by name

\* The console handler, the flags it is built from, and the calls made on them.
handlerVars == <<console_handler, flags, input, history>>

\* The tasks and the threads of the logger, and the threads that call it.
threadVars == <<variant, tasks, end_tasks, stop_event, task_finished, log_thread,
                task_thread, task_threads, console, errors, callers,
                started_tasks, clock, ncalls>>

\* The state of the logger and of the threads that use it, log_queue apart.
loggerVars == <<threadVars, enqueued, handlerVars>>

\* The state of run_command, log_queue apart.
commandVars == <<args, cmd, program, procs, pc, line, stdout, stderr,
                 line_callback_result, res_callback, result, raised, calls>>

vars == <<commandVars, log_queue, loggerVars>>

\* Everything but the processes and their pipes.
runnerVars == <<args, cmd, program, pc, line, stdout, stderr,
                line_callback_result, res_callback, result, raised, log_queue, calls,
                loggerVars>>

\* ------------------------------------------------------------------ inputs
SeqsUpTo(S, n) == UNION {[1..k -> S] : k \in 0..n}

\* One write call of a child: the descriptor and the line written.
Ops == [fd : {"stdout", "stderr"}, data : Lines]

ExitCodes == {0, 1}

\* What the executable of the first stage does: its writes, then its exit code.
Programs(n) == [script : SeqsUpTo(Ops, n), code : ExitCodes]

\* The keyword arguments of run_command.
Options ==
    [show_output : BOOLEAN, title : {"", "plan"},
     line_callback : {"absent", "echo", "stdout_only"},
     callback : {"absent", "pair"}]

\* Every list of n argv lists that holds at most `budget` elements in all.
RECURSIVE NestedArgvs(_, _)
NestedArgvs(n, budget) ==
    IF n = 0 THEN {<<>>}
    ELSE UNION {{<<PyList(a)>> \o r : r \in NestedArgvs(n - 1, budget - Len(a))} :
                a \in SeqsUpTo(ArgValues, budget)}

\* cmd in the single-command form and in the pipeline form.
FlatCmds == {PyList(a) : a \in SeqsUpTo(ArgValues, MaxArgs)}
NestedCmds == UNION {{PyList(c) : c \in NestedArgvs(n, MaxArgs)} : n \in 1..MaxStages}

GoodArgv == <<PyStr("cmd"), PyStr(""), PyStr("--flag"), PyNone>>
GoodCmds == {PyList(GoodArgv)} \cup {PyList([k \in 1..n |-> PyList(GoodArgv)]) : n \in 1..MaxStages}

\* ------------------------------------------------------------------ logger
LoggerLog_front(queue, level, message) == <<<<level, message>>>> \o queue

\* Logger.log: the record is put on the queue.
LoggerLog(queue, level, message) == Append(queue, <<level, message>>)

\* --------------------------------------------------------------- processes
\* subprocess.Popen: a running child with an empty stdout and stderr pipe.
NewProc(argv) ==
    [argv |-> argv, state |-> "running", returncode |-> 0, ip |-> 1,
     held |-> <<>>, matched |-> FALSE,
     stdout |-> <<>>, stderr |-> <<>>, wrote_stdout |-> <<>>, wrote_stderr |-> <<>>]

\* proc: the last process spawned, whose pipes run_command reads.
proc == procs[Len(procs)]

Matches_all(l) == TRUE

\* A line that the filter stages let through: one that contains "b".
Matches(l) == \E i \in 1..Len(l) : l[i] = Ord("b")

\* The first stage performs its next write; the write blocks on a full pipe.
ChildWrite ==
    /\ Len(procs) >= 1
    /\ procs[1].state = "running"
    /\ procs[1].ip <= Len(program.script)
    /\ LET op == program.script[procs[1].ip]
           p == procs[1]
       IN IF op.fd = "stdout"
          THEN /\ Len(p.stdout) < PipeCap
               /\ procs' = [procs EXCEPT ![1] =
                      [p EXCEPT !.ip = @ + 1, !.stdout = Append(@, op.data),
                                !.wrote_stdout = Append(@, op.data)]]
          ELSE /\ Len(p.stderr) < PipeCap
               /\ procs' = [procs EXCEPT ![1] =
                      [p EXCEPT !.ip = @ + 1, !.stderr = Append(@, op.data),
                                !.wrote_stderr = Append(@, op.data)]]
    /\ UNCHANGED runnerVars

\* The first stage has done all its writes and exits, closing its pipe ends.
ChildExit ==
    /\ Len(procs) >= 1
    /\ procs[1].state = "running"
    /\ procs[1].ip > Len(program.script)
    /\ procs' = [procs EXCEPT ![1].state = "exited", ![1].returncode = program.code]
    /\ UNCHANGED runnerVars

\* A later stage reads one line from its stdin, the stdout pipe of the stage before.
FilterRead(k) ==
    /\ procs[k].state = "running"
    /\ procs[k].held = <<>>
    /\ procs[k - 1].stdout # <<>>
    /\ procs' = [procs EXCEPT ![k].held = Head(procs[k - 1].stdout),
                              ![k - 1].stdout = Tail(@)]
    /\ UNCHANGED runnerVars

\* A later stage writes the line it holds to its stdout if it matches, else drops it.
FilterWrite(k) ==
    /\ procs[k].state = "running"
    /\ procs[k].held # <<>>
    /\ IF Matches(procs[k].held)
       THEN /\ Len(procs[k].stdout) < PipeCap
            /\ procs' = [procs EXCEPT ![k] =
                   [@ EXCEPT !.stdout = Append(@, procs[k].held),
                             !.wrote_stdout = Append(@, procs[k].held),
                             !.held = <<>>, !.matched = TRUE]]
       ELSE procs' = [procs EXCEPT ![k].held = <<>>]
    /\ UNCHANGED runnerVars

\* A later stage meets end-of-file on its stdin and exits.
FilterExit(k) ==
    /\ procs[k].state = "running"
    /\ procs[k].held = <<>>
    /\ procs[k - 1].stdout = <<>>
    /\ procs[k - 1].state = "exited"
    /\ procs' = [procs EXCEPT ![k].state = "exited",
                              ![k].returncode = IF procs[k].matched THEN 0 ELSE 1]
    /\ UNCHANGED runnerVars

\* ------------------------------------------------------------- run_command
\* The argv list of stage k as the caller passed it.
StageArgv(c, k) == IF IsList(c[2][1]) THEN c[2][k][2] ELSE c[2]

\* The number of processes run_command spawns for c.
StageCount(c) == IF IsList(c[2][1]) THEN Len(c[2]) ELSE 1

\* Lines 50 to 53: the title is logged, and cmd[0] is evaluated.
Call ==
    /\ pc = "call"
    /\ log_queue' = IF args.show_output /\ Len(args.title) > 0
                    THEN LoggerLog(log_queue, "INFO", "Running: " \o args.title)
                    ELSE log_queue
    /\ IF Len(cmd[2]) = 0
       THEN pc' = "raised" /\ raised' = "IndexError"
       ELSE pc' = "spawn" /\ raised' = raised
    /\ UNCHANGED <<args, cmd, program, procs, line, stdout, stderr,
                   line_callback_result, res_callback, result, calls, loggerVars>>

\* Lines 54 to 64: the next stage's argv is cleaned and the process is spawned.
\* Popen raises for an empty argv and for an argv[0] that cannot be executed.
Popen ==
    /\ pc = "spawn"
    /\ LET k == Len(procs) + 1
           nested == IsList(cmd[2][1])
           argv == clean_command(StageArgv(cmd, k))
       IN /\ cmd' = IF nested /\ k = 1
                    THEN PyList([cmd[2] EXCEPT ![1] = PyList(argv)])
                    ELSE cmd
          /\ IF argv = <<>>
             THEN pc' = "raised" /\ raised' = "IndexError" /\ procs' = procs
             ELSE IF argv[1][2] \notin Executables
             THEN pc' = "raised" /\ raised' = "FileNotFoundError" /\ procs' = procs
             ELSE /\ procs' = Append(procs, NewProc(argv))
                  /\ pc' = IF k = StageCount(cmd) THEN "read_stdout" ELSE "spawn"
                  /\ raised' = raised
    /\ UNCHANGED <<args, program, line, stdout, stderr,
                   line_callback_result, res_callback, result, log_queue, calls, loggerVars>>

\* Line 70: proc.stdout.readline() returns the next line, or b"" at end-of-file,
\* and blocks while the pipe is empty and its writer has not exited.
ReadStdout ==
    /\ pc = "read_stdout"
    /\ proc.stdout # <<>> \/ proc.state = "exited"
    /\ IF proc.stdout # <<>>
       THEN /\ line' = Head(proc.stdout)
            /\ procs' = [procs EXCEPT ![Len(procs)].stdout = Tail(@)]
       ELSE /\ line' = <<>>
            /\ procs' = procs
    /\ pc' = "read_stderr"
    /\ UNCHANGED <<args, cmd, program, stdout, stderr,
                   line_callback_result, res_callback, result, raised, log_queue, calls, loggerVars>>

LoopDone_either(l, e) == l = <<>> \/ e = <<>>

\* Line 72: if not line and not error_line
LoopDone(l, e) == l = <<>> /\ e = <<>>

Forward_same_level(queue, l, e) ==
    LET q1 == IF e # <<>>
              THEN LoggerLog(queue, "INFO", replace(decode(e), "\n", ""))
              ELSE queue
    IN IF l # <<>> THEN LoggerLog(q1, "INFO", replace(decode(l), "\n", "")) ELSE q1

\* Lines 78 to 85: log.error for the stderr line, then log.info for the stdout line.
Forward(queue, l, e) ==
    LET q1 == IF e # <<>>
              THEN LoggerLog(queue, "ERROR", replace(decode(e), "\n", ""))
              ELSE queue
    IN IF l # <<>> THEN LoggerLog(q1, "INFO", replace(decode(l), "\n", "")) ELSE q1

\* What line_callback gets for one stream: the decoded line, or the empty bytes.
LineArg(l) == IF l # <<>> THEN PyStr(decode(l)) ELSE PyBytes(<<>>)

\* The caller's line_callback: one that returns both arguments, and one that
\* returns the stdout line or None.
LineCallback(mode, a, b) ==
    IF mode = "echo" THEN PyTuple(<<a, b>>)
    ELSE IF a[1] = "str" THEN a ELSE PyNone

\* The caller's completion callback, which returns both texts.
Callback(out, err) == PyTuple(<<PyStr(out), PyStr(err)>>)

\* Lines 71 to 88: proc.stderr.readline(), then the body of the loop.
ReadStderr ==
    /\ pc = "read_stderr"
    /\ proc.stderr # <<>> \/ proc.state = "exited"
    /\ LET error_line == IF proc.stderr # <<>> THEN Head(proc.stderr) ELSE <<>>
       IN /\ procs' = IF proc.stderr # <<>>
                      THEN [procs EXCEPT ![Len(procs)].stderr = Tail(@)]
                      ELSE procs
          /\ IF LoopDone(line, error_line)
             THEN /\ pc' = "wait"
                  /\ UNCHANGED <<stdout, stderr, line_callback_result, log_queue, calls>>
             ELSE /\ pc' = "read_stdout"
                  /\ stderr' = stderr \o decode(error_line)
                  /\ stdout' = stdout \o decode(line)
                  /\ log_queue' = IF args.show_output
                                  THEN Forward(log_queue, line, error_line)
                                  ELSE log_queue
                  /\ IF args.line_callback # "absent"
                     THEN /\ line_callback_result' =
                               Append(line_callback_result,
                                      LineCallback(args.line_callback,
                                                   LineArg(line), LineArg(error_line)))
                          /\ calls' = [calls EXCEPT !.line =
                                 Append(@, <<LineArg(line), LineArg(error_line)>>)]
                     ELSE UNCHANGED <<line_callback_result, calls>>
    /\ line' = <<>>
    /\ UNCHANGED <<args, cmd, program, res_callback, result, raised, loggerVars>>

\* Line 89: proc.wait() returns once the last process has exited.
Wait ==
    /\ pc = "wait"
    /\ proc.state = "exited"
    /\ pc' = "callback"
    /\ UNCHANGED <<args, cmd, program, procs, line, stdout, stderr,
                   line_callback_result, res_callback, result, raised, log_queue, calls, loggerVars>>

Success_always(returncode) == TRUE

\* Line 94: proc.returncode == 0
Success(returncode) == returncode = 0

\* Lines 90 to 94: the completion callback, then the CommandResult.
Return ==
    /\ pc = "callback"
    /\ LET res == IF args.callback # "absent" THEN Callback(stdout, stderr) ELSE PyNone
       IN /\ res_callback' = res
          /\ calls' = IF args.callback # "absent"
                      THEN [calls EXCEPT !.complete = Append(@, <<stdout, stderr>>)]
                      ELSE calls
          /\ result' = CommandResult(Success(proc.returncode), proc.returncode,
                                     stdout, stderr, res,
                                     SelectSeq(line_callback_result,
                                               LAMBDA x : x # PyNone))
    /\ pc' = "done"
    /\ UNCHANGED <<args, cmd, program, procs, line, stdout, stderr,
                   line_callback_result, raised, log_queue, loggerVars>>

\* ------------------------------------------------------------------ Logger
\* The two logger modules: terraformpy_nerdtronik/utils/logger.py runs a log
\* thread and a task thread, terraform-py_nerdtronik/utils/logger.py runs one
\* consumer thread.  One run loads one of them.
Variants == {"two_thread", "single"}

\* The threads that call the logger.
Callers == {"c1", "c2"}

\* What a caller logs: a plain text, a text with a "%" in it, and a value that
\* json.dumps refuses.
Texts == {"plain", "percent", "unserializable"}

\* The label of a task.
Labels == {"job"}

\* hashlib.md5((message + str(start_time)).encode()).hexdigest(): equal for
\* equal message and start_time, taken to be different otherwise.
TaskId(message, start_time) == <<message, start_time>>

NoId == <<"", 0>>

\* A task dict; uid tells one dict object from another.
Task(message, start_time, uid) ==
    [id |-> TaskId(message, start_time), message |-> message,
     start_time |-> start_time, uid |-> uid, success |-> FALSE]

NoTask == [id |-> NoId, message |-> "", start_time |-> 0, uid |-> 0, success |-> FALSE]

\* The message of a record: its text, the thread that logged it, its number in
\* the order of the puts, and for the records of a task the task's id and the
\* number of active tasks.
Message(text, by, n, id, count) ==
    [text |-> text, by |-> by, n |-> n, task |-> id, count |-> count]

\* Logger.log of the single-consumer logger: the record carries _raise.
LoggerLogRaise(queue, level, message, raise) == Append(queue, <<level, message, raise>>)

\* self._get_message(*messages): json.dumps raises TypeError for a value it
\* cannot serialize.
GetMessageRaises(text) == text = "unserializable"

\* One line on standard output: the thread that wrote it, the number of the
\* record it renders (0 when it renders none), the level, and whether it starts
\* with the cursor-up and erase-line codes.
ConsoleLine(by, n, level, up) == [by |-> by, n |-> n, level |-> level, up |-> up]

\* One report on standard error.
ErrorLine(by, n, what) == [by |-> by, n |-> n, what |-> what]

\* LOGGER_LEVELS: the number of each level name.
LOGGER_LEVELS ==
    [TRACE |-> 9, DEBUG |-> 10, INFO |-> 20, DONE |-> 21, RUNNING |-> 22,
     FAILED |-> 41, COMPLETED |-> 23, SUCCESS |-> 24, WARNING |-> 30,
     ERROR |-> 40, CRITICAL |-> 50, EXCEPTION |-> 51]

\* The level names a caller passes: names of LOGGER_LEVELS in upper, lower and
\* mixed case, and names that LOGGER_LEVELS does not have.
LevelNames == {"INFO", "ERROR", "error", "Debug", "trace", "verbose", "WARN"}

\* level.upper() on the names a caller passes.
Upper(level) ==
    CASE level = "error" -> "ERROR"
      [] level = "Debug" -> "DEBUG"
      [] level = "trace" -> "TRACE"
      [] level = "verbose" -> "VERBOSE"
      [] OTHER -> level

\* The StreamHandler that _custom_formatters builds: its formatter is made from
\* the flags of the moment, and its level is logging.INFO.
NewHandler(fl) == [level |-> LOGGER_LEVELS["INFO"], formatter |-> fl]

\* No call is waiting to be applied.
NoInput == [op |-> "", arg |-> <<>>]

\* Logger.__init__: the flags are all True, and _custom_formatters builds the
\* first console handler.
InitFlags ==
    /\ flags = [file |-> TRUE, date |-> TRUE, env |-> TRUE, level |-> TRUE]
    /\ console_handler = NewHandler(flags)
    /\ history = <<>>

\* The same, with no call of a pure function to make.
InitHandler == InitFlags /\ input = NoInput

\* A caller that is in no call.
IdleCaller == [pc |-> "idle", op |-> "", task |-> NoTask, thr |-> 0, mark |-> 0,
               raised |-> FALSE, id |-> NoId, success |-> FALSE, index |-> 0,
               again |-> FALSE, done |-> {}]

\* A thread that is about to run _process_log_queue, as self._log_thread.
\* others counts the consumer threads started before it that are still alive.
NewLogThread == [ref |-> TRUE, pc |-> "loop", left |-> <<>>, num_tasks |-> 0,
                 last_message_log |-> TRUE, started |-> FALSE, others |-> 0]

\* Logger.__init__ has run: the log thread is started, no task is known.
InitThreads(v) ==
    /\ variant = v
    /\ tasks = <<>>
    /\ end_tasks = <<>>
    /\ stop_event = FALSE
    /\ task_finished = FALSE
    /\ log_thread = NewLogThread
    /\ task_thread = 0
    /\ task_threads = <<>>
    /\ console = <<>>
    /\ errors = <<>>
    /\ callers = [c \in Callers |-> IdleCaller]
    /\ enqueued = <<>>
    /\ started_tasks = <<>>
    /\ clock = 0
    /\ ncalls = 0

\* Logger.__init__, console handler included.
InitLogger(v) == InitThreads(v) /\ InitHandler

\* self.log(level, ...) as the running logger does it: the record is put on the
\* queue, and the history keeps it.
Put(level, text, by, id, count, raise) ==
    LET message == Message(text, by, Len(enqueued) + 1, id, count)
    IN /\ log_queue' = IF variant = "two_thread"
                       THEN LoggerLog(log_queue, level, message)
                       ELSE LoggerLogRaise(log_queue, level, message, raise)
       /\ enqueued' = Append(enqueued, <<level, message, raise>>)

\* The number of RUNNING records put so far.
Frames == Len(SelectSeq(enqueued, LAMBDA r : r[1] = "RUNNING"))

\* A caller returns from the call op, or the call raises in the caller.  What
\* the call was given stays on record.
Returned(c, op, raise) ==
    [callers EXCEPT ![c] =
        [IdleCaller EXCEPT !.op = op, !.raised = raise,
                           !.mark = IF op = "clear_threads" THEN callers[c].mark ELSE 0,
                           !.done = IF op = "clear_threads" THEN callers[c].done ELSE {},
                           !.id = IF op = "finish" THEN callers[c].id ELSE NoId]]

\* The record of a caller that has put a record on the queue, as returned gives
\* it.  When the call before was a finish that returned, the record keeps the id
\* given to finish and the number of the record put.
AfterFinish(c, returned) ==
    IF callers[c].op = "finish" /\ ~callers[c].raised
    THEN [returned EXCEPT ![c].id = callers[c].id, ![c].mark = Len(enqueued) + 1]
    ELSE returned

\* A caller is free to make its next call.  The callers are alike: the one that
\* makes the first call is named c1.
CanCall(c) ==
    /\ callers[c].pc = "idle"
    /\ ncalls < MaxCalls
    /\ c = "c1" \/ ncalls > 0

\* ------------------------------------------------------ calls on the Logger
\* Logger.info: in the single-consumer logger the message is built in the
\* caller, where _get_message may raise; then the record is put on the queue.
Info(c, text) ==
    /\ CanCall(c)
    /\ ncalls' = ncalls + 1
    /\ IF variant = "single" /\ GetMessageRaises(text)
       THEN /\ callers' = Returned(c, "info", TRUE)
            /\ UNCHANGED <<log_queue, enqueued>>
       ELSE /\ Put("INFO", text, c, NoId, 0, FALSE)
            /\ callers' = AfterFinish(c, Returned(c, "info", FALSE))
    /\ UNCHANGED <<commandVars, handlerVars, variant, tasks, end_tasks, stop_event, task_finished,
                   log_thread, task_thread, task_threads, console, errors,
                   started_tasks, clock>>

\* Logger.exception: self.log("EXCEPTION", ...), which puts the record on the
\* queue and returns; the single-consumer logger passes _raise along.
Exception(c, text, raise) ==
    /\ CanCall(c)
    /\ ncalls' = ncalls + 1
    /\ IF variant = "single" /\ GetMessageRaises(text)
       THEN /\ callers' = Returned(c, "exception", TRUE)
            /\ UNCHANGED <<log_queue, enqueued>>
       ELSE /\ Put("EXCEPTION", text, c, NoId, 0, raise)
            /\ callers' = Returned(c, "exception", FALSE)
    /\ UNCHANGED <<commandVars, handlerVars, variant, tasks, end_tasks, stop_event, task_finished,
                   log_thread, task_thread, task_threads, console, errors,
                   started_tasks, clock>>

\* Logger.start up to self._tasks.append(task): start_time is the clock's
\* reading, which may be the reading the call before got.  The single-consumer
\* logger returns here.
Start(c, label, start_time) ==
    /\ CanCall(c)
    /\ ncalls' = ncalls + 1
    /\ clock' = start_time
    /\ LET task == Task(label, start_time, Len(started_tasks) + 1)
       IN /\ tasks' = Append(tasks, task)
          /\ started_tasks' = Append(started_tasks, task)
    /\ callers' = IF variant = "single"
                  THEN Returned(c, "start", FALSE)
                  ELSE [callers EXCEPT ![c] =
                           [IdleCaller EXCEPT !.pc = "start_check", !.op = "start",
                               !.task = Task(label, start_time, Len(started_tasks) + 1)]]
    /\ UNCHANGED <<commandVars, handlerVars, log_queue, variant, end_tasks, stop_event,
                   task_finished, log_thread, task_thread, task_threads, console,
                   errors, enqueued>>

\* A thread object that has not exited.
IsAlive(i) == task_threads[i].pc # "dead"

\* Logger.start of the two-thread logger: is a task thread running?
StartCheck(c) ==
    /\ callers[c].pc = "start_check"
    /\ callers' = IF task_thread = 0 \/ ~IsAlive(task_thread)
                  THEN [callers EXCEPT ![c].pc = "start_spawn"]
                  ELSE Returned(c, "start", FALSE)
    /\ UNCHANGED <<commandVars, handlerVars, log_queue, variant, tasks, end_tasks, stop_event,
                   task_finished, log_thread, task_thread, task_threads, console,
                   errors, enqueued, started_tasks, clock, ncalls>>

\* A thread that is about to run _process_task_queue.
NewTaskThread == [pc |-> "loop", task |-> NoTask, left |-> <<>>]

\* Logger.start of the two-thread logger: both events are cleared and a task
\* thread is created and started.
StartSpawn(c) ==
    /\ callers[c].pc = "start_spawn"
    /\ stop_event' = FALSE
    /\ task_finished' = FALSE
    /\ task_threads' = Append(task_threads, NewTaskThread)
    /\ task_thread' = Len(task_threads) + 1
    /\ callers' = Returned(c, "start", FALSE)
    /\ UNCHANGED <<commandVars, handlerVars, log_queue, variant, tasks, end_tasks, log_thread,
                   console, errors, enqueued, started_tasks, clock, ncalls>>

\* A mutant of NeedsLogThread: a thread is started whatever the state of
\* self._log_thread.
NeedsLogThread_always == TRUE

\* The condition of _start_log_thread: self._log_thread is None or not
\* self._log_thread.is_alive().
NeedsLogThread == ~log_thread.ref \/ log_thread.pc = "dead"

\* Logger._start_log_thread, taken as one step.  The code calls it from
\* __init__ only, that is from one thread while no other call on the logger is
\* in progress; a caller repeats that call here under the same condition.  When
\* the condition holds the stop event is cleared and a new thread is created,
\* stored in self._log_thread and started.
StartLogThread(c) ==
    /\ CanCall(c)
    /\ \A d \in Callers : callers[d].pc = "idle"
    /\ ncalls' = ncalls + 1
    /\ IF NeedsLogThread
       THEN /\ stop_event' = FALSE
            /\ log_thread' =
                   [NewLogThread EXCEPT !.others =
                       log_thread.others + IF log_thread.pc = "dead" THEN 0 ELSE 1]
       ELSE UNCHANGED <<stop_event, log_thread>>
    /\ callers' = Returned(c, "_start_log_thread", FALSE)
    /\ UNCHANGED <<commandVars, handlerVars, log_queue, variant, tasks, end_tasks, task_finished,
                   task_thread, task_threads, console, errors, enqueued,
                   started_tasks, clock>>

\* Logger.sep: self.logger.info(separator) hands the record to the handlers
\* in the calling thread; the queue is not used.  The formatter of the
\* single-consumer logger finds no mapping in record.args and writes the line
\* without the cursor-up prefix; the formatter of the two-thread logger raises
\* on record.args['asctime'], so the handler writes its "--- Logging error ---"
\* report to standard error and no line.
Sep(c) ==
    /\ CanCall(c)
    /\ ncalls' = ncalls + 1
    /\ IF variant = "single"
       THEN /\ console' = Append(console, ConsoleLine(c, 0, "sep", FALSE))
            /\ errors' = errors
       ELSE /\ console' = console
            /\ errors' = Append(errors, ErrorLine(c, 0, "Logging error"))
    /\ callers' = Returned(c, "sep", FALSE)
    /\ UNCHANGED <<commandVars, handlerVars, log_queue, variant, tasks, end_tasks, stop_event,
                   task_finished, log_thread, task_thread, task_threads, enqueued,
                   started_tasks, clock>>

\* list.remove(x) for a list that holds the object x: the first one goes.
Remove(list, x) ==
    LET i == CHOOSE k \in 1..Len(list) :
                 list[k].uid = x.uid /\ \A j \in 1..(k - 1) : list[j].uid # x.uid
    IN SubSeq(list, 1, i - 1) \o SubSeq(list, i + 1, Len(list))

\* x in list, for the object x.
Holds(list, x) == \E i \in 1..Len(list) : list[i].uid = x.uid

\* The ids of the tasks started so far.
TaskIds == {started_tasks[i].id : i \in 1..Len(started_tasks)}

\* A call of finish for the id has moved a task and has returned: a task that
\* was started with the id is neither active nor in the hands of a caller.
Finished(id) ==
    \E i \in 1..Len(started_tasks) :
        /\ started_tasks[i].id = id
        /\ ~Holds(tasks, started_tasks[i])
        /\ \A d \in Callers : callers[d].task.uid # started_tasks[i].uid

\* Logger.finish: the call starts the lookup of the task in self._tasks.  The
\* record of the call notes whether the id has been finished before.
Finish(c, id, success) ==
    /\ CanCall(c)
    /\ ncalls' = ncalls + 1
    /\ callers' = [callers EXCEPT ![c] =
                      [IdleCaller EXCEPT !.pc = "finish_scan", !.op = "finish",
                                         !.id = id, !.success = success,
                                         !.again = Finished(id)]]
    /\ UNCHANGED <<commandVars, handlerVars, log_queue, variant, tasks, end_tasks, stop_event,
                   task_finished, log_thread, task_thread, task_threads, console,
                   errors, enqueued, started_tasks, clock>>

\* Logger.finish: one step of list(filter(lambda x: x["id"] == task_id,
\* self._tasks)).  The list iterator keeps an index into self._tasks and the
\* lambda runs once per element, so other threads run between two elements; a
\* removal in the meantime moves the later elements one place down.  At the end
\* of the list the call returns when nothing was found, and goes on with the
\* first task found otherwise.
FinishScan(c) ==
    /\ callers[c].pc = "finish_scan"
    /\ LET i == callers[c].index + 1
       IN callers' =
            IF i <= Len(tasks)
            THEN [callers EXCEPT ![c].index = i,
                                 ![c].task = IF tasks[i].id = callers[c].id
                                                /\ callers[c].task = NoTask
                                             THEN tasks[i] ELSE callers[c].task]
            ELSE IF callers[c].task = NoTask
                 THEN Returned(c, "finish", FALSE)
                 ELSE [callers EXCEPT ![c].pc = "finish_remove",
                                      ![c].task.success = callers[c].success]
    /\ UNCHANGED <<commandVars, handlerVars, log_queue, variant, tasks, end_tasks, stop_event,
                   task_finished, log_thread, task_thread, task_threads, console,
                   errors, enqueued, started_tasks, clock, ncalls>>

\* Logger.finish: self._tasks.remove(task), which raises ValueError when another
\* call has removed the task already.
FinishRemove(c) ==
    /\ callers[c].pc = "finish_remove"
    /\ IF Holds(tasks, callers[c].task)
       THEN /\ tasks' = Remove(tasks, callers[c].task)
            /\ callers' = [callers EXCEPT ![c].pc = "finish_append"]
       ELSE /\ tasks' = tasks
            /\ callers' = Returned(c, "finish", TRUE)
    /\ UNCHANGED <<commandVars, handlerVars, log_queue, variant, end_tasks, stop_event,
                   task_finished, log_thread, task_thread, task_threads, console,
                   errors, enqueued, started_tasks, clock, ncalls>>

\* Logger.finish: the result is stored in the task and a copy of the task is
\* appended to self._end_tasks.  The single-consumer logger returns here.
FinishAppend(c) ==
    /\ callers[c].pc = "finish_append"
    /\ end_tasks' = Append(end_tasks, callers[c].task)
    /\ callers' = IF variant = "single"
                  THEN Returned(c, "finish", FALSE)
                  ELSE [callers EXCEPT ![c].pc = "finish_set"]
    /\ UNCHANGED <<commandVars, handlerVars, log_queue, variant, tasks, stop_event,
                   task_finished, log_thread, task_thread, task_threads, console,
                   errors, enqueued, started_tasks, clock, ncalls>>

\* Logger.finish of the two-thread logger: self._task_finished.set().
FinishSet(c) ==
    /\ callers[c].pc = "finish_set"
    /\ task_finished' = TRUE
    /\ callers' = Returned(c, "finish", FALSE)
    /\ UNCHANGED <<commandVars, handlerVars, log_queue, variant, tasks, end_tasks, stop_event,
                   log_thread, task_thread, task_threads, console, errors, enqueued,
                   started_tasks, clock, ncalls>>

\* Logger.clear_threads: the stop event is set, and in the two-thread logger the
\* task-finished event too.
ClearThreads(c) ==
    /\ CanCall(c)
    /\ ncalls' = ncalls + 1
    /\ stop_event' = TRUE
    /\ task_finished' = IF variant = "two_thread" THEN TRUE ELSE task_finished
    /\ callers' = [callers EXCEPT ![c] =
           [IdleCaller EXCEPT !.op = "clear_threads", !.mark = Len(enqueued),
                !.done = {id \in TaskIds : Finished(id)},
                !.pc = IF variant = "two_thread" THEN "clear_check_task"
                       ELSE "clear_join_log"]]
    /\ UNCHANGED <<commandVars, handlerVars, log_queue, variant, tasks, end_tasks, log_thread,
                   task_thread, task_threads, console, errors, enqueued,
                   started_tasks, clock>>

\* clear_threads of the two-thread logger: if self._task_thread
ClearCheckTask(c) ==
    /\ callers[c].pc = "clear_check_task"
    /\ callers' = IF task_thread = 0
                  THEN [callers EXCEPT ![c].pc = "clear_join_log"]
                  ELSE [callers EXCEPT ![c].pc = "clear_join_task", ![c].thr = task_thread]
    /\ UNCHANGED <<commandVars, handlerVars, log_queue, variant, tasks, end_tasks, stop_event,
                   task_finished, log_thread, task_thread, task_threads, console,
                   errors, enqueued, started_tasks, clock, ncalls>>

\* clear_threads of the two-thread logger: self._task_thread.join() returns once
\* that thread has exited, then self._task_thread = None.
ClearJoinTask(c) ==
    /\ callers[c].pc = "clear_join_task"
    /\ ~IsAlive(callers[c].thr)
    /\ task_thread' = 0
    /\ callers' = [callers EXCEPT ![c].pc = "clear_join_log", ![c].thr = 0]
    /\ UNCHANGED <<commandVars, handlerVars, log_queue, variant, tasks, end_tasks, stop_event,
                   task_finished, log_thread, task_threads, console, errors,
                   enqueued, started_tasks, clock, ncalls>>

\* clear_threads: self._log_thread.join() returns once the log thread has
\* exited, then self._log_thread = None and the events are cleared.
ClearJoinLog(c) ==
    /\ callers[c].pc = "clear_join_log"
    /\ log_thread.ref => log_thread.pc = "dead"
    /\ log_thread' = [log_thread EXCEPT !.ref = FALSE]
    /\ stop_event' = FALSE
    /\ task_finished' = IF variant = "two_thread" THEN FALSE ELSE task_finished
    /\ callers' = Returned(c, "clear_threads", FALSE)
    /\ UNCHANGED <<commandVars, handlerVars, log_queue, variant, tasks, end_tasks, task_thread,
                   task_threads, console, errors, enqueued, started_tasks, clock,
                   ncalls>>

\* ------------------------------- _process_log_queue, single-consumer logger
\* The while condition, then num_tasks = len(self._tasks) and the test of the
\* animation period, which has elapsed or not.
SingleLoop ==
    /\ variant = "single"
    /\ log_thread.pc = "loop"
    /\ IF stop_event /\ log_queue = <<>>
       THEN log_thread' = [log_thread EXCEPT !.pc = "dead"]
       ELSE \/ /\ Len(tasks) > 0
               /\ Frames < MaxFrames
               /\ log_thread' = [log_thread EXCEPT !.pc = "animate",
                                                   !.num_tasks = Len(tasks)]
            \/ log_thread' = [log_thread EXCEPT !.pc = "drain"]
    /\ UNCHANGED <<commandVars, handlerVars, log_queue, variant, tasks, end_tasks, stop_event,
                   task_finished, task_thread, task_threads, console, errors,
                   callers, enqueued, started_tasks, clock, ncalls>>

\* task = self._tasks[0] and self.log("RUNNING", ...).  On an empty list the
\* IndexError is printed and raised again, which ends the thread.
SingleAnimate ==
    /\ variant = "single"
    /\ log_thread.pc = "animate"
    /\ IF tasks = <<>>
       THEN /\ console' = Append(console, ConsoleLine("log", 0, "print", FALSE))
            /\ log_thread' = [log_thread EXCEPT !.pc = "dead", !.num_tasks = 0]
            /\ UNCHANGED <<log_queue, enqueued>>
       ELSE /\ Put("RUNNING", "plain", "log", tasks[1].id, log_thread.num_tasks, FALSE)
            /\ log_thread' = [log_thread EXCEPT !.pc = "drain", !.num_tasks = 0]
            /\ console' = console
    /\ UNCHANGED <<commandVars, handlerVars, variant, tasks, end_tasks, stop_event,
                   task_finished, task_thread, task_threads, errors, callers,
                   started_tasks, clock, ncalls>>

\* if len(self._end_tasks) > 0: for task in self._end_tasks.copy()
SingleDrain ==
    /\ variant = "single"
    /\ log_thread.pc = "drain"
    /\ log_thread' = [log_thread EXCEPT !.left = end_tasks,
                         !.pc = IF end_tasks = <<>> THEN "get" ELSE "drain_one"]
    /\ UNCHANGED <<commandVars, handlerVars, log_queue, variant, tasks, end_tasks, stop_event,
                   task_finished, task_thread, task_threads, console, errors,
                   callers, enqueued, started_tasks, clock, ncalls>>

\* The level of the terminal record of a finished task.
TerminalLevel(task) == IF task.success THEN "COMPLETED" ELSE "FAILED"

\* The body of the for loop: the task leaves self._end_tasks and its terminal
\* record is logged.
SingleDrainOne ==
    /\ variant = "single"
    /\ log_thread.pc = "drain_one"
    /\ LET task == Head(log_thread.left)
       IN /\ end_tasks' = Remove(end_tasks, task)
          /\ Put(TerminalLevel(task), "plain", "log", task.id, 0, FALSE)
    /\ log_thread' = [log_thread EXCEPT !.left = Tail(@),
                         !.pc = IF Tail(log_thread.left) = <<>> THEN "get" ELSE "drain_one"]
    /\ UNCHANGED <<commandVars, handlerVars, variant, tasks, stop_event, task_finished,
                   task_thread, task_threads, console, errors, callers,
                   started_tasks, clock, ncalls>>

\* LoggerFormatter.format of the single-consumer logger: the line starts with
\* the cursor-up and erase codes when the line before it was a RUNNING line.
SingleFormat(r, last_message_log, started) ==
    ConsoleLine("log", r[2].n, r[1], ~last_message_log /\ started)

\* if not self._log_queue.empty(): the record is taken, handled and, when it
\* carries _raise, the exception is raised, printed and raised again, which ends
\* the thread.
SingleGet ==
    /\ variant = "single"
    /\ log_thread.pc = "get"
    /\ IF log_queue = <<>>
       THEN /\ log_thread' = [log_thread EXCEPT !.pc = "loop"]
            /\ UNCHANGED <<log_queue, console>>
       ELSE LET r == Head(log_queue)
                rendered == Append(console,
                    SingleFormat(r, log_thread.last_message_log, log_thread.started))
            IN /\ log_queue' = Tail(log_queue)
               /\ console' = IF r[3]
                             THEN Append(rendered, ConsoleLine("log", r[2].n, "print", FALSE))
                             ELSE rendered
               /\ log_thread' = [log_thread EXCEPT
                                    !.last_message_log = r[1] # "RUNNING",
                                    !.started = TRUE,
                                    !.pc = IF r[3] THEN "dead" ELSE "loop"]
    /\ UNCHANGED <<commandVars, handlerVars, variant, tasks, end_tasks, stop_event,
                   task_finished, task_thread, task_threads, errors, callers,
                   enqueued, started_tasks, clock, ncalls>>

\* ----------------------------------- _process_log_queue, two-thread logger
\* while not self._stop_event.is_set()
LogLoop ==
    /\ variant = "two_thread"
    /\ log_thread.pc = "loop"
    /\ log_thread' = [log_thread EXCEPT !.pc = IF stop_event THEN "dead" ELSE "get"]
    /\ UNCHANGED <<commandVars, handlerVars, log_queue, variant, tasks, end_tasks, stop_event,
                   task_finished, task_thread, task_threads, console, errors,
                   callers, enqueued, started_tasks, clock, ncalls>>

\* record.getMessage() in LoggerFormatter.format of the two-thread logger: the
\* record's args are ({"asctime": now},), so logging computes msg % args, which
\* raises for a message with a "%" conversion in it.
FormatRaises(text) == text = "percent"

Handle_uncaught(r, out, err) ==
    IF GetMessageRaises(r[2].text)
    THEN [console |-> out, errors |-> err, pc |-> "dead"]
    ELSE [console |-> IF FormatRaises(r[2].text) THEN out
                      ELSE Append(out, ConsoleLine("log", r[2].n, r[1], FALSE)),
          errors |-> IF FormatRaises(r[2].text)
                     THEN Append(err, ErrorLine("log", r[2].n, "Logging error"))
                     ELSE err,
          pc |-> IF r[1] = "EXCEPTION" THEN "dead" ELSE "loop"]

\* The try block of the log thread for the record r, and its except clause.
\* _get_message may raise; self.logger.handle(record) writes the line, or
\* reports a formatting error on standard error as logging.Handler.handleError
\* does; then an EXCEPTION record raises.  What is raised is printed on
\* standard error and the loop goes on.
Handle(r, out, err) ==
    IF GetMessageRaises(r[2].text)
    THEN [console |-> out,
          errors |-> Append(err, ErrorLine("log", r[2].n, "TypeError")),
          pc |-> "loop"]
    ELSE LET handled ==
                 IF FormatRaises(r[2].text)
                 THEN [console |-> out,
                       errors |-> Append(err, ErrorLine("log", r[2].n, "Logging error")),
                       pc |-> "loop"]
                 ELSE [console |-> Append(out, ConsoleLine("log", r[2].n, r[1], FALSE)),
                       errors |-> err,
                       pc |-> "loop"]
         IN IF r[1] = "EXCEPTION"
            THEN [handled EXCEPT !.errors =
                      Append(@, ErrorLine("log", r[2].n, "Exception"))]
            ELSE handled

\* self._log_queue.get(timeout=0.2): the next record is handled, or queue.Empty
\* is raised after the timeout.
LogGet ==
    /\ variant = "two_thread"
    /\ log_thread.pc = "get"
    /\ IF log_queue = <<>>
       THEN /\ log_thread' = [log_thread EXCEPT !.pc = "loop"]
            /\ UNCHANGED <<log_queue, console, errors>>
       ELSE LET after == Handle(Head(log_queue), console, errors)
            IN /\ log_queue' = Tail(log_queue)
               /\ console' = after.console
               /\ errors' = after.errors
               /\ log_thread' = [log_thread EXCEPT !.pc = after.pc]
    /\ UNCHANGED <<commandVars, handlerVars, variant, tasks, end_tasks, stop_event,
                   task_finished, task_thread, task_threads, callers, enqueued,
                   started_tasks, clock, ncalls>>

\* ---------------------------------- _process_task_queue, two-thread logger
\* while not self._stop_event.is_set(), then if len(self._tasks) == 0: continue
TaskLoop(i) ==
    /\ task_threads[i].pc = "loop"
    /\ stop_event \/ Len(tasks) > 0
    /\ task_threads' = [task_threads EXCEPT ![i].pc = IF stop_event THEN "dead" ELSE "read"]
    /\ UNCHANGED <<commandVars, handlerVars, log_queue, variant, tasks, end_tasks, stop_event,
                   task_finished, log_thread, task_thread, console, errors,
                   callers, enqueued, started_tasks, clock, ncalls>>

\* The except clause of the task thread: self.logger.exception(...) hands a
\* record without args to the handlers, whose formatter fails on
\* record.args['asctime']; logging reports that on standard error.
TaskFault(err) == Append(err, ErrorLine("task", 0, "Logging error"))

\* task = self._tasks[-1], an IndexError when the list has become empty.
TaskRead(i) ==
    /\ task_threads[i].pc = "read"
    /\ IF tasks = <<>>
       THEN /\ errors' = TaskFault(errors)
            /\ task_threads' = [task_threads EXCEPT ![i].pc = "loop"]
       ELSE /\ errors' = errors
            /\ task_threads' = [task_threads EXCEPT ![i].pc = "inner",
                                                    ![i].task = tasks[Len(tasks)]]
    /\ UNCHANGED <<commandVars, handlerVars, log_queue, variant, tasks, end_tasks, stop_event,
                   task_finished, log_thread, task_thread, console, callers,
                   enqueued, started_tasks, clock, ncalls>>

\* while not self._task_finished.is_set(): the RUNNING record of the task is
\* logged, unless no task is active.
TaskInner(i) ==
    /\ task_threads[i].pc = "inner"
    /\ IF task_finished \/ Len(tasks) = 0
       THEN /\ task_threads' = [task_threads EXCEPT ![i].pc = "after"]
            /\ UNCHANGED <<log_queue, enqueued>>
       ELSE /\ Frames < MaxFrames
            /\ Put("RUNNING", "plain", "task", task_threads[i].task.id, Len(tasks), FALSE)
            /\ task_threads' = [task_threads EXCEPT ![i].pc = "wait"]
    /\ UNCHANGED <<commandVars, handlerVars, variant, tasks, end_tasks, stop_event,
                   task_finished, log_thread, task_thread, console, errors,
                   callers, started_tasks, clock, ncalls>>

\* Logger.remove_line: print("\033[A\033[K", end="")
remove_line(out, by) == Append(out, ConsoleLine(by, 0, "erase", TRUE))

\* self._task_finished.wait(0.2) returns on the event or on the timeout; the
\* loop is left on the event, else the line is removed.
TaskWait(i) ==
    /\ task_threads[i].pc = "wait"
    /\ IF task_finished
       THEN /\ task_threads' = [task_threads EXCEPT ![i].pc = "after"]
            /\ console' = console
       ELSE /\ task_threads' = [task_threads EXCEPT ![i].pc = "inner"]
            /\ console' = remove_line(console, "task")
    /\ UNCHANGED <<commandVars, handlerVars, log_queue, variant, tasks, end_tasks, stop_event,
                   task_finished, log_thread, task_thread, errors, callers,
                   enqueued, started_tasks, clock, ncalls>>

\* self.remove_line() after the loop, then for task in self._end_tasks.copy()
TaskAfter(i) ==
    /\ task_threads[i].pc = "after"
    /\ console' = remove_line(console, "task")
    /\ task_threads' = [task_threads EXCEPT ![i].left = end_tasks, ![i].task = NoTask,
                           ![i].pc = IF end_tasks = <<>> THEN "clear" ELSE "drain_one"]
    /\ UNCHANGED <<commandVars, handlerVars, log_queue, variant, tasks, end_tasks, stop_event,
                   task_finished, log_thread, task_thread, errors, callers,
                   enqueued, started_tasks, clock, ncalls>>

\* The body of the for loop: the task leaves self._end_tasks, a ValueError when
\* another thread has taken it, and its terminal record is logged.
TaskDrainOne(i) ==
    /\ task_threads[i].pc = "drain_one"
    /\ LET task == Head(task_threads[i].left)
       IN IF Holds(end_tasks, task)
          THEN /\ end_tasks' = Remove(end_tasks, task)
               /\ Put(TerminalLevel(task), "plain", "task", task.id, 0, FALSE)
               /\ errors' = errors
               /\ task_threads' = [task_threads EXCEPT ![i].left = Tail(@),
                      ![i].pc = IF Tail(task_threads[i].left) = <<>>
                                THEN "clear" ELSE "drain_one"]
          ELSE /\ errors' = TaskFault(errors)
               /\ task_threads' = [task_threads EXCEPT ![i].left = <<>>, ![i].pc = "loop"]
               /\ UNCHANGED <<end_tasks, log_queue, enqueued>>
    /\ UNCHANGED <<commandVars, handlerVars, variant, tasks, stop_event, task_finished,
                   log_thread, task_thread, console, callers, started_tasks,
                   clock, ncalls>>

\* self._task_finished.clear()
TaskClear(i) ==
    /\ task_threads[i].pc = "clear"
    /\ task_finished' = FALSE
    /\ task_threads' = [task_threads EXCEPT ![i].pc = "loop"]
    /\ UNCHANGED <<commandVars, handlerVars, log_queue, variant, tasks, end_tasks, stop_event,
                   log_thread, task_thread, console, errors, callers, enqueued,
                   started_tasks, clock, ncalls>>

\* ---------------------------------------------------------- specification
InitRunner ==
    /\ cmd = args.cmd
    /\ procs = <<>>
    /\ pc = "call"
    /\ line = <<>>
    /\ stdout = ""
    /\ stderr = ""
    /\ line_callback_result = <<>>
    /\ res_callback = PyNone
    /\ result = PyNone
    /\ raised = ""
    /\ log_queue = <<>>
    /\ calls = [line |-> <<>>, complete |-> <<>>]
    /\ InitLogger("two_thread")

\* Any program and any options, with a cmd that launches.
InitDrain ==
    /\ \E o \in Options, c \in GoodCmds :
           args = [cmd |-> c, show_output |-> o.show_output, title |-> o.title,
                   line_callback |-> o.line_callback, callback |-> o.callback]
    /\ program \in Programs(MaxScript)
    /\ InitRunner

\* Any cmd, with a program of at most one write and the default options.
InitArgv ==
    /\ \E c \in FlatCmds \cup NestedCmds :
           args = [cmd |-> c, show_output |-> TRUE, title |-> "",
                   line_callback |-> "absent", callback |-> "absent"]
    /\ program \in {p \in Programs(1) : p.code = 0 /\
                        \A i \in 1..Len(p.script) : p.script[i].fd = "stdout"}
    /\ InitRunner

\* A first stage that writes the lines a, b and c to its stdout.
ThreeLines ==
    <<[fd |-> "stdout", data |-> <<Ord("a"), Ord("\n")>>],
      [fd |-> "stdout", data |-> <<Ord("b"), Ord("\n")>>],
      [fd |-> "stdout", data |-> <<Ord("c"), Ord("\n")>>]>>

\* The two-stage pipeline whose first stage writes a, b and c.
InitPipeline ==
    /\ \E o \in Options :
           args = [cmd |-> PyList(<<PyList(GoodArgv), PyList(GoodArgv)>>),
                   show_output |-> o.show_output, title |-> o.title,
                   line_callback |-> o.line_callback, callback |-> o.callback]
    /\ program \in [script : {ThreeLines}, code : ExitCodes]
    /\ InitRunner

Init == InitDrain \/ InitArgv \/ InitPipeline

Next ==
    \/ Call
    \/ Popen
    \/ ReadStdout
    \/ ReadStderr
    \/ Wait
    \/ Return
    \/ ChildWrite
    \/ ChildExit
    \/ \E k \in 2..Len(procs) : FilterRead(k)
    \/ \E k \in 2..Len(procs) : FilterWrite(k)
    \/ \E k \in 2..Len(procs) : FilterExit(k)

Spec == Init /\ [][Next]_vars

\* No call of run_command is under way.
InitNoCommand ==
    /\ args = <<>>
    /\ cmd = PyNone
    /\ program = [script |-> <<>>, code |-> 0]
    /\ procs = <<>>
    /\ pc = "idle"
    /\ line = <<>>
    /\ stdout = ""
    /\ stderr = ""
    /\ line_callback_result = <<>>
    /\ res_callback = PyNone
    /\ result = PyNone
    /\ raised = ""
    /\ calls = [line |-> <<>>, complete |-> <<>>]

\* The logger of either module, freshly constructed.
InitSpecLogger ==
    /\ \E v \in Variants : InitLogger(v)
    /\ log_queue = <<>>
    /\ InitNoCommand

\* The logger of either module after the calls of start that gave the active
\* tasks ts have returned; in the two-thread logger these calls have started k
\* task threads, none of which has run yet.  The callers have made n of the
\* calls that MaxCalls allows them.
InitCalls(ts, k, n) ==
    /\ variant \in Variants
    /\ tasks = ts
    /\ started_tasks = tasks
    /\ end_tasks = <<>>
    /\ stop_event = FALSE
    /\ task_finished = FALSE
    /\ log_thread = NewLogThread
    /\ task_thread = IF variant = "two_thread" THEN k ELSE 0
    /\ task_threads = IF variant = "two_thread"
                      THEN [i \in 1..k |-> NewTaskThread] ELSE <<>>
    /\ console = <<>>
    /\ errors = <<>>
    /\ callers = [c \in Callers |-> IdleCaller]
    /\ enqueued = <<>>
    /\ clock = 0
    /\ ncalls = n
    /\ log_queue = <<>>
    /\ InitHandler
    /\ InitNoCommand

\* The calls of start have started one task thread.
InitActive(ts) == InitCalls(ts, 1, 0)

\* The logger after log.start("job") has returned.
InitStarted == InitActive(<<Task("job", 0, 1)>>)

\* The label of the second of two tasks: the label of the first, or another.
SecondLabels == {"job", "build"}

\* The logger after two calls of start have returned, which read the same
\* clock value: log.start("job"); log.start(label).
InitTwoStarted ==
    \E label \in SecondLabels : InitActive(<<Task("job", 0, 1), Task(label, 0, 2)>>)

\* The logger after two calls of start, made at the same time by two threads,
\* have returned: log.start("job") and log.start("build").  In the two-thread
\* logger both calls found no task thread alive and each started one.  One
\* further call is made.
InitTwoThreads ==
    InitCalls(<<Task("job", 0, 1), Task("build", 0, 2)>>, 2, MaxCalls - 1)

\* What time() returns to start: the reading the start before it got, or a
\* later one.
Readings == IF started_tasks = <<>> THEN {clock} ELSE {clock, clock + 1}

\* The call of start for the i-th task started has returned the id: a caller
\* has the id to give to finish from then on.
IdReturned(i) ==
    \A c \in Callers :
        callers[c].pc \in {"start_check", "start_spawn"}
            => callers[c].task.uid # started_tasks[i].uid

\* _raise as a caller of exception may pass it; the two-thread logger has no
\* such parameter and raises for every EXCEPTION record.
RaiseFlags == IF variant = "single" THEN BOOLEAN ELSE {TRUE}

NextLogger ==
    \/ \E c \in Callers, text \in Texts : Info(c, text)
    \/ \E c \in Callers, text \in Texts, raise \in RaiseFlags : Exception(c, text, raise)
    \/ \E c \in Callers : Sep(c)
    \/ \E c \in Callers : StartLogThread(c)
    \/ \E c \in Callers, label \in Labels, t \in Readings : Start(c, label, t)
    \/ \E c \in Callers : StartCheck(c)
    \/ \E c \in Callers : StartSpawn(c)
    \/ \E c \in Callers, i \in 1..Len(started_tasks), success \in BOOLEAN :
           IdReturned(i) /\ Finish(c, started_tasks[i].id, success)
    \/ \E c \in Callers : FinishScan(c)
    \/ \E c \in Callers : FinishRemove(c)
    \/ \E c \in Callers : FinishAppend(c)
    \/ \E c \in Callers : FinishSet(c)
    \/ \E c \in Callers : ClearThreads(c)
    \/ \E c \in Callers : ClearCheckTask(c)
    \/ \E c \in Callers : ClearJoinTask(c)
    \/ \E c \in Callers : ClearJoinLog(c)
    \/ SingleLoop
    \/ SingleAnimate
    \/ SingleDrain
    \/ SingleDrainOne
    \/ SingleGet
    \/ LogLoop
    \/ LogGet
    \/ \E i \in 1..Len(task_threads) : TaskLoop(i)
    \/ \E i \in 1..Len(task_threads) : TaskRead(i)
    \/ \E i \in 1..Len(task_threads) : TaskInner(i)
    \/ \E i \in 1..Len(task_threads) : TaskWait(i)
    \/ \E i \in 1..Len(task_threads) : TaskAfter(i)
    \/ \E i \in 1..Len(task_threads) : TaskDrainOne(i)
    \/ \E i \in 1..Len(task_threads) : TaskClear(i)

SpecLogger == InitSpecLogger /\ [][NextLogger]_vars

SpecStarted == InitStarted /\ [][NextLogger]_vars

SpecTwoStarted == InitTwoStarted /\ [][NextLogger]_vars

SpecTwoThreads == (InitTwoThreads \/ InitSpecLogger) /\ [][NextLogger]_vars

\* ------------------------------------------- the console handler's settings
\* The history with one more call: what was called with what, whether it
\* raised, what it returned, and the console handler's level and the length of
\* the queue before (was) and after (now) the call.
Called(op, arg, raise, out, level, queue) ==
    Append(history, [op |-> op, arg |-> arg, raised |-> raise, out |-> out,
                     was |-> <<console_handler.level, Len(log_queue)>>,
                     now |-> <<level, Len(queue)>>])

\* LOGGER_LEVELS.get(name): the value under name, none for a name that
\* LOGGER_LEVELS does not have.
LevelValue_default(name) ==
    {LOGGER_LEVELS[IF name \in DOMAIN LOGGER_LEVELS THEN name ELSE "INFO"]}

LevelValue(name) ==
    IF name \in DOMAIN LOGGER_LEVELS THEN {LOGGER_LEVELS[name]} ELSE {}

\* handler.setLevel(n)
SetHandlerLevel(handler, n) == [handler EXCEPT !.level = n]

\* Logger._custom_formatters: the handler in place is removed from the logger,
\* and a new one built from the flags takes its place.
CustomFormatters(handler, fl) == NewHandler(fl)

\* Logger.set_level(level): a name that LOGGER_LEVELS does not have raises
\* ValueError; otherwise the level is set on the handler in place, and
\* _custom_formatters runs.
SetLevel(level) ==
    /\ Len(history) < MaxCalls
    /\ IF Upper(level) \notin DOMAIN LOGGER_LEVELS
       THEN /\ UNCHANGED console_handler
            /\ history' = Called("set_level", level, TRUE, "",
                                  console_handler.level, log_queue)
       ELSE /\ console_handler' =
                  CustomFormatters(SetHandlerLevel(console_handler,
                                                   LOGGER_LEVELS[Upper(level)]), flags)
            /\ history' = Called("set_level", level, FALSE, "",
                                  console_handler'.level, log_queue)
    /\ UNCHANGED <<commandVars, log_queue, threadVars, enqueued, flags, input>>

\* Logger.show_file, show_date, show_env and show_level: the flag is set, and
\* _custom_formatters runs.
ShowFile(show) ==
    /\ Len(history) < MaxCalls
    /\ flags' = [flags EXCEPT !.file = show]
    /\ console_handler' = CustomFormatters(console_handler, flags')
    /\ history' = Called("show_file", <<>>, FALSE, "", console_handler'.level, log_queue)
    /\ UNCHANGED <<commandVars, log_queue, threadVars, enqueued, input>>

ShowDate(show) ==
    /\ Len(history) < MaxCalls
    /\ flags' = [flags EXCEPT !.date = show]
    /\ console_handler' = CustomFormatters(console_handler, flags')
    /\ history' = Called("show_date", <<>>, FALSE, "", console_handler'.level, log_queue)
    /\ UNCHANGED <<commandVars, log_queue, threadVars, enqueued, input>>

ShowEnv(show) ==
    /\ Len(history) < MaxCalls
    /\ flags' = [flags EXCEPT !.env = show]
    /\ console_handler' = CustomFormatters(console_handler, flags')
    /\ history' = Called("show_env", <<>>, FALSE, "", console_handler'.level, log_queue)
    /\ UNCHANGED <<commandVars, log_queue, threadVars, enqueued, input>>

ShowLevel(show) ==
    /\ Len(history) < MaxCalls
    /\ flags' = [flags EXCEPT !.level = show]
    /\ console_handler' = CustomFormatters(console_handler, flags')
    /\ history' = Called("show_level", <<>>, FALSE, "", console_handler'.level, log_queue)
    /\ UNCHANGED <<commandVars, log_queue, threadVars, enqueued, input>>

\* Logger.log(level, text): a name without a value in LOGGER_LEVELS raises
\* ValueError; otherwise the record is put under the upper-case name.  In the
\* single-consumer logger _get_message runs before the put, and may raise.
Log(c, level, text) ==
    /\ Len(history) < MaxCalls
    /\ IF LevelValue(Upper(level)) = {} \/ (variant = "single" /\ GetMessageRaises(text))
       THEN /\ UNCHANGED <<log_queue, enqueued>>
            /\ history' = Called("log", level, TRUE, "", console_handler.level, log_queue)
       ELSE /\ Put(Upper(level), text, c, NoId, 0, FALSE)
            /\ history' = Called("log", level, FALSE, "", console_handler.level, log_queue')
    /\ UNCHANGED <<commandVars, threadVars, console_handler, flags, input>>

NextHandler ==
    \/ \E level \in LevelNames : SetLevel(level)
    \/ \E show \in BOOLEAN : ShowFile(show)
    \/ \E show \in BOOLEAN : ShowDate(show)
    \/ \E show \in BOOLEAN : ShowEnv(show)
    \/ \E show \in BOOLEAN : ShowLevel(show)
    \/ \E level \in LevelNames, text \in Texts : Log("c1", level, text)

\* A fresh logger of either kind, and the calls that configure its console
\* handler or log under a level name.
SpecHandler == InitSpecLogger /\ [][NextHandler]_vars

\* ---------------------------------------------------- LoggerFormatter.format
\* The flags of a formatter.
FormatterFlags == [file : BOOLEAN, date : BOOLEAN, env : BOOLEAN, level : BOOLEAN]

\* What record.args can be: no attribute at all, None, a tuple of n values, or
\* a dict with the given keys.
RecordArgs ==
    {[kind |-> "absent", keys |-> {}, n |-> 0], [kind |-> "none", keys |-> {}, n |-> 0],
     [kind |-> "tuple", keys |-> {}, n |-> 0], [kind |-> "tuple", keys |-> {}, n |-> 1]}
    \cup {[kind |-> "dict", keys |-> K, n |-> 0] : K \in SUBSET {"asctime", "env"}}

\* The value under a key of record.args.
ArgsValue(key) == IF key = "asctime" THEN "T" ELSE "prod"

\* The records handed to format: logged by the logger "dev" at INFO from
\* file.py, line 3.
Records ==
    [args : RecordArgs, name : {"dev"}, levelname : {"INFO"}, filename : {"file.py"},
     lineno : {"3"}, msg : {"plain", "percent"}]

\* record.args[key] gives a value: args is a dict that has the key.
HasKey(rargs, key) == rargs.kind = "dict" /\ key \in rargs.keys

\* record.getMessage() raises: the record has no args, or msg % args does, for
\* a tuple that is not empty or for a text with a "%" and a dict that is not
\* empty.
RecordGetMessageRaises(record) ==
    \/ record.args.kind = "absent"
    \/ record.args.kind = "tuple" /\ record.args.n > 0
    \/ record.args.kind = "dict" /\ record.args.keys # {} /\ record.msg = "percent"

\* What format gives: the parts of the line in order, unless it raised.  The
\* colour codes around the parts are left out: with and without colours the
\* same fields are read in the same order.
Line(parts) == [raised |-> FALSE, line |-> parts]

FormatRaised == [raised |-> TRUE, line |-> <<>>]

\* One part of the line, when its flag is set.
Part(show, text) == IF show THEN <<text>> ELSE <<>>

\* LoggerFormatter.format of the two-thread logger: the date is
\* record.args['asctime'], the environment is record.name, the message is
\* record.getMessage().
FormatTwoThread(formatter, record) ==
    IF \/ formatter.date /\ ~HasKey(record.args, "asctime")
       \/ RecordGetMessageRaises(record)
    THEN FormatRaised
    ELSE Line(Part(formatter.date, ArgsValue("asctime"))
              \o Part(formatter.env, "(" \o record.name \o ")")
              \o Part(formatter.level, record.levelname)
              \o Part(formatter.file, record.filename \o ":" \o record.lineno)
              \o <<"| " \o record.msg>>)

\* args.get(key, default) after "args = getattr(record, 'args', {})" and "if not
\* isinstance(args, dict): args = {}".
ArgsGet(rargs, key, default) ==
    IF HasKey(rargs, key) THEN ArgsValue(key) ELSE default

\* LoggerFormatter.format of the single-consumer logger: the date defaults to
\* now(), the environment to "default", and the message is record.msg.  The
\* records here have no last_log and no started entry, so no cursor codes.
FormatSingle(formatter, record) ==
    Line(Part(formatter.date, ArgsGet(record.args, "asctime", "now"))
         \o Part(formatter.env, "(" \o ArgsGet(record.args, "env", "default") \o ")")
         \o Part(formatter.level, record.levelname)
         \o Part(formatter.file, record.filename \o ":" \o record.lineno)
         \o <<"| " \o record.msg>>)

\* The call formatter.format(record) is about to be made.
FormatInputs ==
    {[op |-> "format", arg |-> [formatter |-> f, record |-> r]] :
        f \in FormatterFlags, r \in Records}

\* formatter.format(record), by the formatter of the module that is loaded.
Format ==
    /\ input.op = "format"
    /\ LET out == IF variant = "two_thread"
                  THEN FormatTwoThread(input.arg.formatter, input.arg.record)
                  ELSE FormatSingle(input.arg.formatter, input.arg.record)
       IN history' = Called("format", input.arg, out.raised, out.line,
                            console_handler.level, log_queue)
    /\ input' = NoInput
    /\ UNCHANGED <<commandVars, log_queue, threadVars, enqueued, console_handler, flags>>

\* A logger of either module, and a record about to be formatted.
InitFormat ==
    /\ \E v \in Variants : InitThreads(v)
    /\ InitFlags
    /\ input \in FormatInputs
    /\ log_queue = <<>>
    /\ InitNoCommand

SpecFormat == InitFormat /\ [][Format]_vars

\* ------------------------------------------------------ format_elapsed_time
\* The bits of the significand of a Python float.
Mantissa == 53

\* The minutes or seconds, and the milliseconds, of an elapsed time.
Sixtieths == {0, 1, 59}

Thousandths == {0, 1, 29, 500, 999}

\* The number of binary digits of n.
RECURSIVE BitLength(_)
BitLength(n) == IF n = 0 THEN 0 ELSE 1 + BitLength(n \div 2)

\* The binary digits after the point are worked out twenty at a time.
Limb == 2^20

\* Digit i after the point, of digits given as limbs of twenty.
Digit(limbs, i) == (limbs[(i - 1) \div 20 + 1] \div 2^(19 - ((i - 1) % 20))) % 2

\* All the digits of the limbs.
Digits(limbs) == [i \in 1..(20 * Len(limbs)) |-> Digit(limbs, i)]

\* The first eighty binary digits of r / 1000 after the point, and whether
\* anything is left after them.
Expand(r) ==
    LET r1 == (r * Limb) % 1000
        r2 == (r1 * Limb) % 1000
        r3 == (r2 * Limb) % 1000
    IN [bits |-> Digits(<<(r * Limb) \div 1000, (r1 * Limb) \div 1000,
                          (r2 * Limb) \div 1000, (r3 * Limb) \div 1000>>),
        more |-> (r3 * Limb) % 1000 > 0]

\* The number of zeros before the first one of the digits, their number when
\* all are zero.
ZerosBefore(bits) ==
    LET ones == {i \in 1..Len(bits) : bits[i] = 1}
    IN IF ones = {} THEN Len(bits)
       ELSE (CHOOSE k \in ones : \A i \in ones : k <= i) - 1

\* The digits after the point plus one unit in the last place: the last zero
\* becomes a one and the ones after it zeros; without a zero the whole part
\* gains one.
Increment(bits) ==
    LET zeros == {i \in 1..Len(bits) : bits[i] = 0}
        last == CHOOSE k \in zeros : \A i \in zeros : i <= k
    IN IF zeros = {} THEN [carry |-> 1, bits |-> [i \in 1..Len(bits) |-> 0]]
       ELSE [carry |-> 0,
             bits |-> [i \in 1..Len(bits) |->
                          IF i < last THEN bits[i] ELSE IF i = last THEN 1 ELSE 0]]

\* The float nearest to the exact value with the whole part int and the digits
\* bits after the point (followed by more digits that are not all zero when
\* more is true): 53 significant digits are kept, ties go to even.
Rounded(int, bits, more) ==
    LET kept == IF int > 0 THEN Mantissa - BitLength(int)
                ELSE ZerosBefore(bits) + Mantissa
        odd == IF kept > 0 THEN bits[kept] = 1 ELSE int % 2 = 1
        up == /\ bits[kept + 1] = 1
              /\ more \/ odd \/ \E i \in (kept + 2)..Len(bits) : bits[i] = 1
        r == IF up THEN Increment(SubSeq(bits, 1, kept))
             ELSE [carry |-> 0, bits |-> SubSeq(bits, 1, kept)]
    IN IF kept >= Len(bits) THEN [int |-> int, frac |-> bits]
       ELSE [int |-> int + r.carry, frac |-> r.bits]

\* The float nearest to t + w / 1000.
Float(t, w) == LET e == Expand(w) IN Rounded(t, e.bits, e.more)

\* The value of digits i to j of bits as a whole number; the digits after the
\* last one are zeros.
RECURSIVE Value(_, _, _)
Value(bits, i, j) ==
    IF i > j THEN 0
    ELSE (IF i <= Len(bits) THEN bits[i] ELSE 0) * 2^(j - i) + Value(bits, i + 1, j)

\* The digits after the point (eighty at most) times 1000, exactly: the whole
\* part and the digits after the point.
Times1000(bits) ==
    LET v4 == 1000 * Value(bits, 61, 80)
        v3 == 1000 * Value(bits, 41, 60) + v4 \div Limb
        v2 == 1000 * Value(bits, 21, 40) + v3 \div Limb
        v1 == 1000 * Value(bits, 1, 20) + v2 \div Limb
    IN [int |-> v1 \div Limb,
        frac |-> Digits(<<v1 % Limb, v2 % Limb, v3 % Limb, v4 % Limb>>)]

\* int(x * 1000) for the digits x after the point: the product is rounded to a
\* float, and cut to its whole part.
IntOfRounded(x) == Rounded(x.int, x.frac, FALSE).int

\* result.rstrip(", "): the separators at the end are dropped.  The parts that
\* are not separators end in a letter.
RECURSIVE Rstrip(_)
Rstrip(parts) ==
    IF parts # <<>> /\ parts[Len(parts)] = ", "
    THEN Rstrip(SubSeq(parts, 1, Len(parts) - 1))
    ELSE parts

\* The parts as one string.
RECURSIVE Joined(_)
Joined(parts) == IF parts = <<>> THEN "" ELSE parts[1] \o Joined(Tail(parts))

\* format_elapsed_time(0.0, end_time): end_time - start_time is end_time.  The
\* floor divisions and the remainders of a float by 3600 and by 60 are exact,
\* and so is elapsed_time - int(elapsed_time); the product by 1000 is rounded.
format_elapsed_time(end_time) ==
    LET hours == end_time.int \div 3600
        minutes == (end_time.int % 3600) \div 60
        seconds == (end_time.int % 3600) % 60
        milliseconds == IntOfRounded(Times1000(end_time.frac))
    IN Joined(Rstrip(
           (IF hours > 0 THEN <<ToString(hours) \o "h", ", ">> ELSE <<>>)
           \o (IF minutes > 0 THEN <<ToString(minutes) \o "min", ", ">> ELSE <<>>)
           \o (IF seconds > 0 THEN <<ToString(seconds) \o "s", ", ">> ELSE <<>>)
           \o (IF milliseconds > 0 THEN <<ToString(milliseconds) \o "ms">> ELSE <<>>)))

\* The call format_elapsed_time(0.0, end_time) is about to be made for an
\* elapsed time of h hours, m minutes, s seconds and w milliseconds.
ElapsedInputs ==
    {[op |-> "format_elapsed_time", arg |-> <<h, m, s, w>>] :
        h \in 0..MaxHours, m \in Sixtieths, s \in Sixtieths, w \in Thousandths}

FormatElapsedTime ==
    /\ input.op = "format_elapsed_time"
    /\ LET a == input.arg
           end_time == Float(3600 * a[1] + 60 * a[2] + a[3], a[4])
       IN history' = Called("format_elapsed_time", a, FALSE,
                            format_elapsed_time(end_time),
                            console_handler.level, log_queue)
    /\ input' = NoInput
    /\ UNCHANGED <<commandVars, log_queue, threadVars, enqueued, console_handler, flags>>

\* A logger of either module, and an elapsed time about to be formatted.
InitElapsed ==
    /\ \E v \in Variants : InitThreads(v)
    /\ InitFlags
    /\ input \in ElapsedInputs
    /\ log_queue = <<>>
    /\ InitNoCommand

SpecElapsed == InitElapsed /\ [][FormatElapsedTime]_vars

\* ------------------------------------------------------------------ claims
\* The bytes of a sequence of lines, one after the other.
RECURSIVE Flatten(_)
Flatten(ls) == IF ls = <<>> THEN <<>> ELSE Head(ls) \o Flatten(Tail(ls))

\* The text of a sequence of lines.
Text(ls) == decode(Flatten(ls))

\* Each line's text without its line feed.
Stripped(ls) == [i \in 1..Len(ls) |-> replace(decode(ls[i]), "\n", "")]

\* The messages of the records of queue q that carry the level lv.
Messages(q, lv) ==
    LET at == SelectSeq(q, LAMBDA r : r[1] = lv)
    IN [i \in 1..Len(at) |-> at[i][2]]

\* run_command has neither returned nor raised.
Running == pc \notin {"done", "raised"}

\* The first stage is blocked in a write to its full pipe fd.
WriterBlocked(fd) ==
    /\ Len(procs) >= 1
    /\ procs[1].state = "running"
    /\ procs[1].ip <= Len(program.script)
    /\ program.script[procs[1].ip].fd = fd
    /\ Len(IF fd = "stdout" THEN procs[1].stdout ELSE procs[1].stderr) >= PipeCap

\* The runner is blocked in readline() on the pipe fd of the last process.
ReaderBlocked(fd) ==
    /\ pc = (IF fd = "stdout" THEN "read_stdout" ELSE "read_stderr")
    /\ (IF fd = "stdout" THEN proc.stdout ELSE proc.stderr) = <<>>
    /\ proc.state = "running"

\* C1: run_command never deadlocks while draining: no reachable state has the
\* runner blocked in readline() on one pipe of the child while the child is
\* blocked writing to its other, full, pipe.
C1_NoDrainDeadlock ==
    Len(procs) = 1 =>
        /\ ~(ReaderBlocked("stdout") /\ WriterBlocked("stderr"))
        /\ ~(ReaderBlocked("stderr") /\ WriterBlocked("stdout"))

\* C2: a line the child has written on one stream is delivered without waiting
\* for the other stream: the runner is never blocked reading one stream while
\* the other stream holds an undelivered line and the child is still running.
C2_NoLineHeldBack ==
    /\ ~(ReaderBlocked("stdout") /\ proc.stderr # <<>>)
    /\ ~(ReaderBlocked("stderr") /\ (line # <<>> \/ proc.stdout # <<>>))

\* The stdout (i = 1) or stderr (i = 2) arguments of the line_callback calls
\* that carried a line of that stream.
CallLines(i) ==
    LET at == SelectSeq(calls.line, LAMBDA c : c[i][1] = "str")
    IN [j \in 1..Len(at) |-> at[j][i][2]]

\* C3: for a child that emits m stdout lines and n stderr lines, line_callback
\* is invoked m+n times and line_callback_output has m+n entries, each stream's
\* lines in arrival order.
C3_OneCallbackPerLine ==
    (pc = "done" /\ args.line_callback = "echo") =>
        /\ Len(calls.line) = Len(proc.wrote_stdout) + Len(proc.wrote_stderr)
        /\ Len(result.line_callback_output)
               = Len(proc.wrote_stdout) + Len(proc.wrote_stderr)
        /\ CallLines(1) = [i \in 1..Len(proc.wrote_stdout) |-> decode(proc.wrote_stdout[i])]
        /\ CallLines(2) = [i \in 1..Len(proc.wrote_stderr) |-> decode(proc.wrote_stderr[i])]

\* C4: the completion callback is invoked at most once, only after both pipes of
\* the last process are at end-of-file and the process has been waited for, with
\* the whole text of each stream in order; a run that returns has invoked it
\* exactly once when a callback was passed, and never when none was.
C4_CallbackOnceAfterEOF ==
    /\ Len(calls.complete) <= 1
    /\ Len(calls.complete) = 1 =>
           /\ pc = "done"
           /\ proc.state = "exited" /\ proc.stdout = <<>> /\ proc.stderr = <<>>
           /\ calls.complete[1] = <<Text(proc.wrote_stdout), Text(proc.wrote_stderr)>>
    /\ pc = "done" => Len(calls.complete) = (IF args.callback = "absent" THEN 0 ELSE 1)

C4_Witness ==
    /\ pc = "done"
    /\ Len(calls.complete) = 1
    /\ calls.complete[1][1] # ""
    /\ calls.complete[1][2] # ""

\* C5: with two or more stages run_command returns whenever every stage would
\* exit if its output were consumed: an earlier stage blocked in a write to its
\* own full stderr pipe never leaves run_command unable to make progress.
C5_EarlierStageStderrNeverStalls ==
    (Len(procs) >= 2 /\ Running /\ WriterBlocked("stderr")) => ENABLED Next

\* C6: success is true exactly when the exit code of the last process is 0, and
\* a non-zero exit code never raises: the result carries that exit code and the
\* whole stdout and stderr text.
C6_SuccessIffExitZero ==
    /\ pc = "done" =>
           /\ result.success = (proc.returncode = 0)
           /\ result.code = proc.returncode
           /\ Len(procs) = 1 => result.code = program.code
           /\ result.stdout = Text(proc.wrote_stdout)
           /\ result.stderr = Text(proc.wrote_stderr)
    /\ (Len(procs) >= 1 /\ proc.state = "exited" /\ proc.returncode # 0) =>
           (raised = "" \/ Len(procs) < StageCount(args.cmd))

C6_Witness ==
    /\ pc = "done"
    /\ result.code # 0
    /\ result.success = FALSE
    /\ result.stderr # ""

\* C7: a launch failure (no such executable, or an argv that is empty after
\* filtering) is returned as a result value and never raised out of run_command.
C7_LaunchFailureIsAValue == raised = ""

\* C8: the callback_output of the returned CommandResult equals the value the
\* completion callback returned, and is None when no callback was passed.
C8_CallbackOutputIsReturnValue ==
    pc = "done" =>
        /\ result.callback_output = res_callback
        /\ args.callback = "absent" => result.callback_output = PyNone

\* out is inp without its None and empty-string elements, the others in order.
IsFilterOf(inp, out) ==
    /\ \A i \in 1..Len(out) : out[i] # PyNone /\ out[i] # PyStr("")
    /\ \E f \in [1..Len(out) -> 1..Len(inp)] :
           /\ \A i \in 1..Len(out) : out[i] = inp[f[i]]
           /\ \A i, j \in 1..Len(out) : i < j => f[i] < f[j]
           /\ \A j \in 1..Len(inp) :
                  (\A i \in 1..Len(out) : f[i] # j) => inp[j] \in {PyNone, PyStr("")}

\* C9: the argv of every spawned process, in the single-command form and in every
\* position of a pipeline, is the caller's argv without its None and empty-string
\* elements, the remaining elements in their original order.
C9_SpawnedArgvIsFiltered ==
    \A k \in 1..Len(procs) : IsFilterOf(StageArgv(args.cmd, k), procs[k].argv)

C9_Witness ==
    /\ Len(procs) = 2
    /\ \E k \in 1..2 : Len(procs[k].argv) < Len(StageArgv(args.cmd, k))
    /\ \E k \in 1..2 : Len(procs[k].argv) >= 2

\* The records run_command put for lines: all but the title's record.
Forwarded ==
    IF args.show_output /\ args.title # "" /\ pc # "call"
    THEN Tail(log_queue) ELSE log_queue

\* The line read from stdout that the loop body has not handled yet.
Pending == IF line = <<>> THEN <<>> ELSE <<line>>

\* C10: when show_output is true every line read is forwarded to the logger
\* exactly once, stdout lines at INFO and stderr lines at ERROR, each stream's
\* lines in the order the child wrote them; nothing is forwarded otherwise.
C10_LinesForwardedInOrder ==
    /\ ~args.show_output => log_queue = <<>>
    /\ (args.show_output /\ Len(procs) >= 1) =>
           /\ \A i \in 1..Len(Forwarded) : Forwarded[i][1] \in {"INFO", "ERROR"}
           /\ Messages(Forwarded, "INFO") \o Stripped(Pending \o proc.stdout)
                  = Stripped(proc.wrote_stdout)
           /\ Messages(Forwarded, "ERROR") \o Stripped(proc.stderr)
                  = Stripped(proc.wrote_stderr)

C10_Witness ==
    /\ pc = "done"
    /\ args.show_output
    /\ Len(Messages(Forwarded, "INFO")) >= 1
    /\ Len(Messages(Forwarded, "ERROR")) >= 1
    /\ Len(log_queue) >= 3

\* Of the lines ls, those that are the line "b\n".
OnlyB(ls) == SelectSeq(ls, LAMBDA l : l = <<Ord("b"), Ord("\n")>>)

\* C11: for a two-stage pipeline the returned stdout is what stage 2 produces
\* from the whole stdout of stage 1, and the exit code and success are those of
\* the last stage: a first stage writing a, b, c and a second stage keeping the
\* lines that contain b give stdout "b\n", exit code 0 and success true.
C11_PipelineResultIsLastStage ==
    (pc = "done" /\ Len(procs) = 2) =>
        /\ procs[1].stdout = <<>>
        /\ result.stdout = Text(OnlyB(procs[1].wrote_stdout))
        /\ result.code = procs[2].returncode
        /\ result.success = (procs[2].returncode = 0)
        /\ program.script = ThreeLines =>
               /\ result.stdout = "b\n"
               /\ result.code = 0
               /\ result.success = TRUE

C11_Witness ==
    /\ pc = "done"
    /\ Len(procs) = 2
    /\ program.script = ThreeLines
    /\ program.code = 1
    /\ result.stdout = "b\n"
    /\ result.success = TRUE

\* The lines on standard output that render a record, in the order written.
Rendered == SelectSeq(console, LAMBDA l : l.n > 0 /\ l.level \notin {"print", "erase"})

\* The record numbered n has been rendered.
IsRendered(n) == \E i \in 1..Len(Rendered) : Rendered[i].n = n

\* The number of records the consumer has taken from the queue.
Consumed == Len(enqueued) - Len(log_queue)

\* C12: in both loggers log never blocks the caller, and records are rendered
\* in the order they were put on the queue: the queue holds the records put and
\* not yet taken, oldest first, a record is rendered only once taken, and the
\* rendered lines follow the order of the puts with no record rendered twice.
C12_RenderedInPutOrder ==
    /\ \A c \in Callers : CanCall(c) => ENABLED Info(c, "plain")
    /\ Consumed >= 0
    /\ \A i \in 1..Len(log_queue) : log_queue[i][2] = enqueued[Consumed + i][2]
    /\ \A i \in 1..Len(Rendered) : Rendered[i].n <= Consumed
    /\ \A i, j \in 1..Len(Rendered) : i < j => Rendered[i].n < Rendered[j].n

C12_Witness ==
    /\ Len(Rendered) = 2
    /\ enqueued[1][2].by = "c1"
    /\ enqueued[2][2].by = "c1"
    /\ Rendered[1].n = 1
    /\ Rendered[2].n = 2

\* The caller c has returned from clear_threads, and a plain record put before
\* that call has not been rendered.
Undrained(c) ==
    /\ callers[c].op = "clear_threads"
    /\ callers[c].pc = "idle"
    /\ \E n \in 1..callers[c].mark : enqueued[n][2].text = "plain" /\ ~IsRendered(n)

\* C13: in the two-thread logger clear_threads drains the queue: when it
\* returns, every record put before it was called has been rendered.
C13_TwoThreadClearDrains ==
    variant = "two_thread" => \A c \in Callers : ~Undrained(c)

\* C14: in the single-consumer logger clear_threads drains the queue: when it
\* returns, every record put before it was called has been rendered, whatever
\* records were processed before.
C14_SingleClearDrains ==
    variant = "single" => \A c \in Callers : ~Undrained(c)

\* clear_threads has been called.
ClearCalled == ~log_thread.ref \/ \E c \in Callers : callers[c].op = "clear_threads"

\* The reports of the log thread on standard error for the record numbered n
\* that carry the exception type what.
Reports(n, what) ==
    Len(SelectSeq(errors, LAMBDA e : e.by = "log" /\ e.n = n /\ e.what = what))

\* C15: in the two-thread logger an exception raised while the log thread
\* handles a record is caught and reported on standard error, and the thread
\* goes on: the thread is alive in every state before clear_threads is called,
\* every record taken that raised has its one report, and every plain record
\* taken, after a faulty one too, has been rendered.
C15_LogThreadSurvivesFaults ==
    variant = "two_thread" =>
        /\ ~ClearCalled => log_thread.pc # "dead"
        /\ \A n \in 1..Consumed :
               LET r == enqueued[n]
               IN /\ r[2].text = "unserializable" =>
                         Reports(n, "TypeError") = 1 /\ Reports(n, "Exception") = 0
                  /\ (r[2].text # "unserializable" /\ r[1] = "EXCEPTION") =>
                         Reports(n, "Exception") = 1
                  /\ r[2].text = "plain" => IsRendered(n)

C15_Witness ==
    /\ variant = "two_thread"
    /\ ~ClearCalled
    /\ Consumed = 2
    /\ enqueued[1][2].text = "unserializable"
    /\ enqueued[2][1] = "EXCEPTION"
    /\ enqueued[2][2].text = "plain"
    /\ Reports(1, "TypeError") = 1
    /\ Reports(2, "Exception") = 1
    /\ IsRendered(2)
    /\ log_thread.pc = "loop"

\* C16: in the single-consumer logger the consumer thread never terminates
\* before clear_threads is called, under any interleaving of log, exception,
\* start and finish calls.
C16_SingleConsumerNeverDies ==
    (variant = "single" /\ ~ClearCalled) => log_thread.pc # "dead"

\* The numbers of the records for which the consumer has raised: the log thread
\* of the two-thread logger reports the exception on standard error, the
\* consumer of the single-consumer logger prints it on standard output.
RaisedFor ==
    {errors[i].n : i \in {j \in 1..Len(errors) :
                              errors[j].by = "log" /\ errors[j].what = "Exception"}}
    \cup {console[i].n : i \in {j \in 1..Len(console) :
                                    console[j].level = "print" /\ console[j].n > 0}}

\* C17: in both loggers an EXCEPTION record is written to the sinks before the
\* consumer raises for it: the consumer has raised for no record whose line has
\* not been emitted.
C17_RenderedBeforeRaise == \A n \in RaisedFor : IsRendered(n)

\* C18: a call of Logger.exception raises in the calling thread: no caller has
\* returned from exception without an exception.
C18_ExceptionRaisesInCaller ==
    \A c \in Callers :
        (callers[c].op = "exception" /\ callers[c].pc = "idle") => callers[c].raised

\* C19: in both loggers no task id is in both the active list and the finished
\* list.
C19_NoIdInBothLists ==
    \A i \in 1..Len(tasks), j \in 1..Len(end_tasks) : tasks[i].id # end_tasks[j].id

\* The terminal record of a task with the given id has been put on the queue.
TerminalPut(id) ==
    \E n \in 1..Len(enqueued) :
        enqueued[n][1] \in {"COMPLETED", "FAILED"} /\ enqueued[n][2].task = id

\* C20: finish moves a task from the active list to the finished list
\* atomically: in no state is a started task whose terminal record has not been
\* produced in neither list.
C20_FinishIsAtomic ==
    \A i \in 1..Len(started_tasks) :
        LET task == started_tasks[i]
        IN Holds(tasks, task) \/ Holds(end_tasks, task) \/ TerminalPut(task.id)

\* C24: two tasks that are active at the same time have different ids, also
\* when they were started with the same label at the same clock reading.
C24_ActiveIdsDiffer ==
    \A i, j \in 1..Len(tasks) : i # j => tasks[i].id # tasks[j].id

\* The tasks started so far have different labels.
DistinctLabels ==
    \A i, j \in 1..Len(started_tasks) :
        i # j => started_tasks[i].message # started_tasks[j].message

\* C21: when tasks with different labels are started and finished by several
\* threads at once, no finish is lost: once a call of finish has returned, the
\* task with its id is not active any more.
C21_NoFinishLost ==
    DistinctLabels =>
        \A c \in Callers :
            callers[c].pc = "idle" /\ callers[c].op = "finish"
                => \A i \in 1..Len(tasks) : tasks[i].id # callers[c].id

\* C22: a call of finish for an id that has been finished before finds no task:
\* it moves nothing and raises nothing.
C22_SecondFinishIsNoOp ==
    \A c \in Callers :
        callers[c].again =>
            callers[c].pc = "finish_scan" /\ callers[c].task = NoTask

\* C23: no call of finish raises, also when two threads finish one active id
\* at the same time.
C23_ConcurrentFinishNeverRaises ==
    \A c \in Callers : ~(callers[c].op = "finish" /\ callers[c].raised)

\* Some step of a task thread.
TaskStep ==
    \E i \in 1..Len(task_threads) :
        \/ TaskLoop(i) \/ TaskRead(i) \/ TaskInner(i) \/ TaskWait(i)
        \/ TaskAfter(i) \/ TaskDrainOne(i) \/ TaskClear(i)

\* C25: in the two-thread logger a finished task gets its terminal record
\* with no further call: while a task waits in the finished list and no call is
\* in progress, the task thread, which alone produces the record, can take a
\* step.  (A state in which the bound on the frames holds the thread back is
\* left out.)
C25_FinishedTaskIsReported ==
    /\ variant = "two_thread"
    /\ end_tasks # <<>>
    /\ \A c \in Callers : callers[c].pc = "idle"
    /\ \A c \in Callers : callers[c].op # "clear_threads"
    /\ Frames < MaxFrames
    => ENABLED TaskStep

\* The terminal record of a task with the given id has been rendered.
TerminalRendered(id) ==
    \E n \in 1..Len(enqueued) :
        /\ enqueued[n][1] \in {"COMPLETED", "FAILED"}
        /\ enqueued[n][2].task = id
        /\ IsRendered(n)

\* C26: in the single-consumer logger, when clear_threads returns, every task
\* whose finish had returned before clear_threads was called has its terminal
\* line on the console.
C26_TerminalLineBeforeClearReturns ==
    variant = "single" =>
        \A c \in Callers :
            callers[c].op = "clear_threads" /\ callers[c].pc = "idle"
                => \A id \in callers[c].done : TerminalRendered(id)

\* The lines on the console after the writes in out.  The codes "\033[A\033[K"
\* move the cursor up one line and clear that line, so a write that starts with
\* them takes the last line away; a record line is then written in its place.
RECURSIVE Screen(_)
Screen(out) ==
    IF out = <<>>
    THEN <<>>
    ELSE LET before == Screen(SubSeq(out, 1, Len(out) - 1))
             write == out[Len(out)]
             kept == IF write.up /\ before # <<>>
                     THEN SubSeq(before, 1, Len(before) - 1)
                     ELSE before
         IN IF write.level = "erase" THEN kept ELSE Append(kept, write)

\* The k-th write to the console starts with the codes and the line they clear
\* is a RUNNING frame that the log thread has rendered.
ClearsFrame(k) ==
    LET before == Screen(SubSeq(console, 1, k - 1))
    IN /\ console[k].up
       /\ before # <<>>
       /\ before[Len(before)].level = "RUNNING"

\* C27: in the two-thread logger every remove_line of the task thread erases a
\* RUNNING frame that has been rendered, never another line.
C27_EraseHitsRenderedFrame ==
    \A k \in 1..Len(console) :
        console[k].level = "erase" /\ console[k].by = "task" => ClearsFrame(k)

\* C28: in the single-consumer logger a rendered record starts with the
\* cursor-up-and-clear codes exactly when the last line on the console is a
\* RUNNING frame, so it never clears another line, a separator included.
C28_PrefixIffFrameIsLast ==
    variant = "single" =>
        \A k \in 1..Len(console) :
            console[k].n > 0 /\ console[k].level # "print"
                => (console[k].up <=> ClearsFrame(k))

\* C29: in both loggers only the log consumer thread writes to the console.
C29_OnlyConsumerWrites ==
    \A k \in 1..Len(console) : console[k].by = "log"

\* The number of log consumer threads of the logger that are alive.
AliveConsumers == log_thread.others + IF log_thread.pc = "dead" THEN 0 ELSE 1

\* C30: in both loggers at most one log consumer thread is alive at any time:
\* _start_log_thread starts a thread only when there is none or the last one has
\* exited.
C30_OneLogConsumer == AliveConsumers <= 1

\* clear_threads has joined the consumer thread and has returned, and
\* _start_log_thread has started a new consumer thread after that.
C30_Witness ==
    /\ \E c \in Callers : callers[c].op = "_start_log_thread"
    /\ \E c \in Callers : callers[c].op = "clear_threads" /\ callers[c].pc = "idle"
    /\ log_thread.ref
    /\ log_thread.pc # "dead"

\* A caller waits in clear_threads for a thread that has not exited.
Joining(c) ==
    \/ callers[c].pc = "clear_join_task" /\ IsAlive(callers[c].thr)
    \/ callers[c].pc = "clear_join_log" /\ log_thread.ref /\ log_thread.pc # "dead"

\* C31: in both loggers clear_threads terminates: the threads exit only when
\* they see the stop event set, so while a caller waits in a join for a thread
\* that is alive, the stop event is set.
C31_StopSignalReachesThreads ==
    \A c \in Callers : Joining(c) => stop_event

\* The tasks started so far have different ids, so that an id names one task.
DistinctIds ==
    \A i, j \in 1..Len(started_tasks) :
        i # j => started_tasks[i].id # started_tasks[j].id

\* C36: in both loggers no RUNNING record of a task is put on the queue after
\* the terminal record of that task.
C36_NoFrameAfterTerminal ==
    DistinctIds =>
        \A n, m \in 1..Len(enqueued) :
            /\ n < m
            /\ enqueued[n][1] \in {"COMPLETED", "FAILED"}
            /\ enqueued[m][1] = "RUNNING"
            => enqueued[m][2].task # enqueued[n][2].task

\* C38: in the two-thread logger at most one task thread is alive at any time,
\* also when several threads call start at once while none is running.
C38_OneTaskThread ==
    Cardinality({i \in 1..Len(task_threads) : IsAlive(i)}) <= 1

\* C37: in both loggers, when a thread has put a record after its call of
\* finish for a task has returned and that record is rendered, the terminal
\* line of the task has been rendered before.
C37_TerminalBeforeLaterRecord ==
    \A c \in Callers :
        /\ callers[c].op = "info"
        /\ callers[c].mark > 0
        /\ \A i \in 1..Len(tasks) : tasks[i].id # callers[c].id
        /\ IsRendered(callers[c].mark)
        => TerminalRendered(callers[c].id)

\* C39: in both loggers every record put on the queue is rendered in the end,
\* also one that is put after clear_threads has returned: while records wait
\* in the queue and no call is in progress, a consumer thread is alive.
C39_QueueHasConsumer ==
    log_queue # <<>> /\ (\A c \in Callers : callers[c].pc = "idle")
        => AliveConsumers > 0

\* A call of log or of set_level under a name that LOGGER_LEVELS does not have.
UnknownLevel(h) ==
    h.op \in {"log", "set_level"} /\ Upper(h.arg) \notin DOMAIN LOGGER_LEVELS

\* C32: a call of Logger.log or of Logger.set_level under a level name that is
\* not in LOGGER_LEVELS raises, and leaves the queue as long as it was and the
\* console handler's level what it was.
C32_UnknownLevelRejected ==
    \A i \in 1..Len(history) :
        UnknownLevel(history[i]) =>
            history[i].raised /\ history[i].now = history[i].was

\* Both calls have been made under an unknown name, and have raised.
C32_Witness ==
    /\ Len(history) = 2
    /\ history[1].op = "set_level" /\ UnknownLevel(history[1]) /\ history[1].raised
    /\ history[2].op = "log" /\ UnknownLevel(history[2]) /\ history[2].raised

\* The calls of set_level that returned.
SetLevels == {i \in 1..Len(history) : history[i].op = "set_level" /\ ~history[i].raised}

\* The level of the most recent set_level that returned, INFO when there is none.
LastSetLevel ==
    IF SetLevels = {} THEN "INFO"
    ELSE Upper(history[CHOOSE i \in SetLevels : \A j \in SetLevels : j <= i].arg)

\* C35: after any calls of set_level, show_file, show_date, show_env and
\* show_level the console handler's level is the level of the most recent
\* set_level that returned, INFO when there was none.
C35_HandlerLevelIsLastSet == console_handler.level = LOGGER_LEVELS[LastSetLevel]

\* The calls of format on a record whose optional fields are missing: args
\* absent, not a mapping, or without an asctime or an env entry.
MissingFields(h) ==
    /\ h.op = "format"
    /\ ~(HasKey(h.arg.record.args, "asctime") /\ HasKey(h.arg.record.args, "env"))

\* C33: in both loggers format does not raise for a record whose optional
\* fields are missing, and returns a line.
C33_FormatNeverRaises ==
    \A i \in 1..Len(history) :
        MissingFields(history[i]) => ~history[i].raised /\ history[i].out # <<>>

\* The components that are not zero, in order, joined by ", ".
Components(h, m, s, w) ==
    LET parts == (IF h > 0 THEN <<ToString(h) \o "h">> ELSE <<>>)
                 \o (IF m > 0 THEN <<ToString(m) \o "min">> ELSE <<>>)
                 \o (IF s > 0 THEN <<ToString(s) \o "s">> ELSE <<>>)
                 \o (IF w > 0 THEN <<ToString(w) \o "ms">> ELSE <<>>)
    IN Joined([i \in 1..(2 * Len(parts) - 1) |->
                  IF i % 2 = 1 THEN parts[(i + 1) \div 2] ELSE ", "])

\* C34: for an elapsed time of h hours, m minutes, s seconds and w
\* milliseconds format_elapsed_time returns the components that are not zero,
\* in order and joined by ", "; 0 gives "" and 3661.5 gives
\* "1h, 1min, 1s, 500ms".
C34_ElapsedComponents ==
    \A i \in 1..Len(history) :
        history[i].op = "format_elapsed_time" =>
            history[i].out = Components(history[i].arg[1], history[i].arg[2],
                                        history[i].arg[3], history[i].arg[4])
====
